---- MODULE Spec2Model ----
(***************************************************************************)
(* Financial Document Analyzer: the page-range selector                    *)
(* (parsePageRangeString), the data source registry of the App component   *)
(* (dataSources / activeDataSourceId) and the JSON import reconciler       *)
(* (handleJsonFileSelectedForUpload).                                      *)
(*                                                                         *)
(* Strings are sequences of one-character strings, so that split, trim,    *)
(* parseInt and String(n) are computed the way the runtime computes them.  *)
(***************************************************************************)
EXTENDS Integers, Sequences, FiniteSets, TLC

VARIABLES
    rangeStr,        \* parsePageRangeString: the rangeStr argument
    maxPage,         \* parsePageRangeString: the maxPage argument
    parseResult,     \* result of parsePageRangeString(rangeStr, maxPage), or NotRun
    reparseResult,   \* result of parsing parseResult's pages joined by ","
    userFiles,       \* the JSON files the user has at hand to upload
    dataSources,     \* App state: the registry, in insertion order
    activeDataSourceId,          \* App state: the active source id, or Null
    nextId,          \* the ids uuidv4() has handed out so far
    jsonReads,       \* JSON uploads awaiting file.text(), in start order
    jsonProcessingLoading,       \* App state
    jsonProcessingError,         \* App state: the message shown, or NoError
    numerical,       \* handleNumericalSubmit: its position and captured file name
    numericalProcessingLoading,  \* App state
    chart,           \* handleChartExtractionSubmit: its position and captured file name
    chartProcessingLoading,      \* App state
    lastOp,          \* history: the handler step taken last
    isZipping,       \* DataDisplay state
    zip,             \* downloadAllSourcesAsZip: its position, the sources it was given, the JSZip entries
    exported,        \* history: the files downloaded so far, each with the source it was made from
    provider,        \* the service module the App imports: "ollama", "gemini" or "azure"
    appVersion,      \* the App that calls it: "part_000", or "App.tsx" with its processedData step
    apiKey,          \* App state: an API key has been entered
    responseText,    \* the text a provider answers a document analysis with
    normalized,      \* analyzeDocument's outcome for responseText as it is and inside a fence
    providerResponse,            \* the array a provider's answer parses to
    analysis,        \* outcome of the last analyzeDocument call, or NotAnalyzed
    chatMessages,    \* the chat log
    isChatLoading,   \* a question is in flight
    chatError,       \* the error line of the chat tab, or NoError
    chatQuery,       \* the prompt queryExtractedData built for the last question sent
    templateFill,    \* the prompt fillTemplateWithData built last
    startedFrom,     \* history: the registry and the active id each operation in flight started from, or Untracked
    chartLoop,       \* analyzeImagesForCharts: the page images, the loop index, the call awaited, the calls made, the charts
    templateView     \* TemplateResponseRenderer: the response rendered and the parts shown

parseVars == <<rangeStr, maxPage, parseResult, reparseResult>>

appVars == <<userFiles, dataSources, activeDataSourceId, nextId, jsonReads,
             jsonProcessingLoading, jsonProcessingError, numerical, numericalProcessingLoading,
             chart, chartProcessingLoading, lastOp>>

exportVars == <<isZipping, zip, exported>>

analyzeVars == <<provider, appVersion, apiKey, responseText, normalized, providerResponse, analysis>>

chatVars == <<chatMessages, isChatLoading, chatError, chatQuery, templateFill>>

viewVars == <<chartLoop, templateView>>

serviceVars == <<exportVars, analyzeVars, chatVars, startedFrom, viewVars>>

vars == <<parseVars, appVars, serviceVars>>

-----------------------------------------------------------------------------
(* Bounds of the model *)

\* longest enumerated page-range string
MaxLen == 5
\* largest enumerated document page count
MaxPages == 3

-----------------------------------------------------------------------------
(* Characters and strings *)

Digits == {"0", "1", "2", "3", "4", "5", "6", "7", "8", "9"}

\* the characters the enumerated page-range strings are built from
Alphabet == {"0", "1", "2", "-", ",", " ", "x"}

IsWhite(c) == c \in {" ", "\n"}

DigitVal(c) ==
    CASE c = "0" -> 0 [] c = "1" -> 1 [] c = "2" -> 2 [] c = "3" -> 3
      [] c = "4" -> 4 [] c = "5" -> 5 [] c = "6" -> 6 [] c = "7" -> 7
      [] c = "8" -> 8 [] c = "9" -> 9

DigitChar(d) ==
    CASE d = 0 -> "0" [] d = 1 -> "1" [] d = 2 -> "2" [] d = 3 -> "3"
      [] d = 4 -> "4" [] d = 5 -> "5" [] d = 6 -> "6" [] d = 7 -> "7"
      [] d = 8 -> "8" [] d = 9 -> "9"

\* String.prototype.trim
RECURSIVE TrimLeft(_)
TrimLeft(s) ==
    IF s # <<>> /\ IsWhite(Head(s)) THEN TrimLeft(Tail(s)) ELSE s

RECURSIVE TrimRight(_)
TrimRight(s) ==
    IF s # <<>> /\ IsWhite(s[Len(s)]) THEN TrimRight(SubSeq(s, 1, Len(s) - 1)) ELSE s

Trim(s) == TrimRight(TrimLeft(s))

\* String.prototype.includes, for a one-character needle
Includes(s, c) == \E i \in 1..Len(s) : s[i] = c

\* String.prototype.split, for a one-character separator: always at least one part
RECURSIVE SplitFrom(_, _, _, _)
SplitFrom(s, c, i, cur) ==
    IF i > Len(s) THEN <<cur>>
    ELSE IF s[i] = c THEN <<cur>> \o SplitFrom(s, c, i + 1, <<>>)
    ELSE SplitFrom(s, c, i + 1, Append(cur, s[i]))

Split(s, c) == SplitFrom(s, c, 1, <<>>)

\* Number -> string, String(n) for an integer n
RECURSIVE NatToStr(_)
NatToStr(n) ==
    IF n < 10 THEN <<DigitChar(n)>> ELSE Append(NatToStr(n \div 10), DigitChar(n % 10))

ToStr(n) == IF n < 0 THEN <<"-">> \o NatToStr(0 - n) ELSE NatToStr(n)

\* Array.prototype.join(",") of an array of numbers
RECURSIVE JoinPages(_)
JoinPages(pages) ==
    IF pages = <<>> THEN <<>>
    ELSE IF Len(pages) = 1 THEN ToStr(pages[1])
    ELSE ToStr(Head(pages)) \o <<",">> \o JoinPages(Tail(pages))

\* parseInt(s, 10): leading white space skipped, an optional sign, then the
\* longest prefix of decimal digits; whatever follows is ignored; NaN when
\* there is no digit.
NaN == [nan |-> TRUE, val |-> 0]

RECURSIVE DigitPrefixVal(_, _)
DigitPrefixVal(s, acc) ==
    IF s # <<>> /\ Head(s) \in Digits
    THEN DigitPrefixVal(Tail(s), acc * 10 + DigitVal(Head(s)))
    ELSE acc

ParseInt(s) ==
    LET t    == TrimLeft(s)
        neg  == t # <<>> /\ Head(t) = "-"
        sgn  == t # <<>> /\ Head(t) \in {"-", "+"}
        body == IF sgn THEN Tail(t) ELSE t
    IN  IF body = <<>> \/ Head(body) \notin Digits THEN NaN
        ELSE [nan |-> FALSE,
              val |-> IF neg THEN 0 - DigitPrefixVal(body, 0) ELSE DigitPrefixVal(body, 0)]

-----------------------------------------------------------------------------
(* parsePageRangeString *)

Ok(pages) == [ok |-> TRUE, pages |-> pages, error |-> "", named |-> <<>>]
Err(kind, named) == [ok |-> FALSE, pages |-> <<>>, error |-> kind, named |-> named]

\* Set<number>.add: insertion order is kept, a value already present is not added
SetAdd(set, n) == IF \E i \in 1..Len(set) : set[i] = n THEN set ELSE Append(set, n)

\* for (let i = start; i <= end; i++) pageNumbers.add(i)
RECURSIVE AddRange(_, _, _)
AddRange(set, start, end) ==
    IF start > end THEN set ELSE AddRange(SetAdd(set, start), start + 1, end)

\* Array.prototype.sort((a, b) => a - b)
RECURSIVE InsertSorted(_, _)
InsertSorted(sorted, n) ==
    IF sorted = <<>> THEN <<n>>
    ELSE IF n - Head(sorted) < 0 THEN <<n>> \o sorted
    ELSE <<Head(sorted)>> \o InsertSorted(Tail(sorted), n)

\* faulty variant: Array.from(pageNumbers) returned without the sort
SortNumeric_Unsorted(a) == a

RECURSIVE SortNumeric(_)
SortNumeric(a) ==
    IF a = <<>> THEN <<>> ELSE InsertSorted(SortNumeric(SubSeq(a, 1, Len(a) - 1)), a[Len(a)])

\* faulty variant: (_, i) => i, the pages counted from 0
AllPages_ZeroBased(n) == [i \in 1..n |-> i - 1]

\* Array.from({ length: maxPage }, (_, i) => i + 1)
AllPages(n) == [i \in 1..n |-> i]

\* the body of the loop over the parts, for one part; the result is either
\* the grown page set or the error thrown
ParsePart(set, part, n) ==
    LET trimmedPart == Trim(part) IN
    IF trimmedPart = <<>> THEN [thrown |-> FALSE, set |-> set, err |-> Err("", <<>>)]
    ELSE IF Includes(trimmedPart, "-") THEN
        LET rangeParts == Split(trimmedPart, "-") IN
        IF Len(rangeParts) # 2
        THEN [thrown |-> TRUE, set |-> set, err |-> Err("Invalid range format", trimmedPart)]
        ELSE
            LET start == ParseInt(rangeParts[1])
                end   == ParseInt(rangeParts[2])
            IN  IF start.nan \/ end.nan
                THEN [thrown |-> TRUE, set |-> set,
                      err |-> Err("Invalid page numbers in range", trimmedPart)]
                ELSE IF start.val < 1 \/ end.val > n \/ start.val > end.val
                THEN [thrown |-> TRUE, set |-> set,
                      err |-> Err("Invalid page range", trimmedPart)]
                ELSE [thrown |-> FALSE, set |-> AddRange(set, start.val, end.val),
                      err |-> Err("", <<>>)]
    ELSE
        LET pageNum == ParseInt(trimmedPart) IN
        IF pageNum.nan
        THEN [thrown |-> TRUE, set |-> set, err |-> Err("Invalid page number", trimmedPart)]
        ELSE IF pageNum.val < 1 \/ pageNum.val > n
        THEN [thrown |-> TRUE, set |-> set,
              err |-> Err("Invalid page number", ToStr(pageNum.val))]
        ELSE [thrown |-> FALSE, set |-> SetAdd(set, pageNum.val), err |-> Err("", <<>>)]

RECURSIVE ParseParts(_, _, _, _)
ParseParts(parts, i, set, n) ==
    IF i > Len(parts) THEN [thrown |-> FALSE, set |-> set, err |-> Err("", <<>>)]
    ELSE LET r == ParsePart(set, parts[i], n)
         IN  IF r.thrown THEN r ELSE ParseParts(parts, i + 1, r.set, n)

parsePageRangeString(s, n) ==
    IF s = <<>> \/ Trim(s) = <<>> THEN Ok(AllPages(n))
    ELSE
        LET r == ParseParts(Split(s, ","), 1, <<>>, n) IN
        IF r.thrown THEN r.err
        ELSE IF Len(r.set) = 0 THEN Err("No valid pages found", s)
        ELSE Ok(SortNumeric(r.set))

-----------------------------------------------------------------------------
(* JSON values, files and records *)

\* useState<string | null>(null): no active source
Null == 0

\* most uuidv4() calls of a run, which bounds the sources ever added
MaxAdds == 2
\* most JSON uploads awaiting file.text() at once
MaxInFlight == 1
\* longest array in an enumerated JSON document
MaxItems == 2

\* a name: `${base}${suffix}`
PlainName(base) == [base |-> base, suffix |-> ""]
ChartsName(base) == [base |-> base, suffix |-> " (Charts)"]

\* an array element: null, a number, or an object with the given keys
NullItem == [t |-> "null", keys |-> {}]
NumberItem == [t |-> "number", keys |-> {}]
Obj(keys) == [t |-> "object", keys |-> keys]

\* a record analyzeDocument returns, and a chart record built at lines 305-310
NumericItem == Obj({"name", "value", "unit", "period", "year", "page", "source", "file"})
ChartItem == Obj({"pageNumber", "title", "coordinates", "id", "file", "imageDataUrl"})

\* the value of a property of a JSON object
Undefined == [t |-> "undefined", s |-> PlainName(""), items |-> <<>>]
StringValue(s) == [t |-> "string", s |-> s, items |-> <<>>]
NumberValue == [t |-> "number", s |-> PlainName(""), items |-> <<>>]
ArrayValue(items) == [t |-> "array", s |-> PlainName(""), items |-> items]

\* what JSON.parse(text) gives: an object with its name, dataType and data
\* properties, an array, null, a number, or a SyntaxError ("invalid")
JsonObject(name, dataType, data) ==
    [t |-> "object", name |-> name, dataType |-> dataType, data |-> data, items |-> <<>>]
JsonArray(items) ==
    [t |-> "array", name |-> Undefined, dataType |-> Undefined, data |-> Undefined,
     items |-> items]
JsonOther(t) ==
    [t |-> t, name |-> Undefined, dataType |-> Undefined, data |-> Undefined, items |-> <<>>]

JsonFile(fileName, content) == [name |-> fileName, content |-> content]

NoFile == JsonFile("", JsonOther("invalid"))

\* `k in firstItem`, guarded by `firstItem && typeof firstItem === 'object'`
IsObjectWith(item, keys) == item.t = "object" /\ keys \subseteq item.keys

\* useState<string | null>(null): no error message shown
NoError == ""

Thrown(message) ==
    [ok |-> FALSE, error |-> message, name |-> PlainName(""), dataType |-> "", data |-> <<>>]
NewSource(name, dataType, data) ==
    [ok |-> TRUE, error |-> "", name |-> name, dataType |-> dataType, data |-> data]

\* the field names quoted in the message of each Error the handler throws
FieldsNamedIn(message) ==
    CASE message = "The uploaded array does not contain recognizable data items"
           -> {"value", "year", "title", "coordinates"}
      [] message = "Invalid JSON format" -> {"name", "dataType", "data"}
      [] OTHER -> {}

\* faulty variant: an array that matches neither test loaded as numerical data
ClassifyLegacyArray_Lenient(items, fileName) ==
    LET firstItem == items[1] IN
    IF IsObjectWith(firstItem, {"value", "year"})
    THEN NewSource(PlainName(fileName), "numerical", items)
    ELSE IF IsObjectWith(firstItem, {"title", "coordinates"})
    THEN NewSource(ChartsName(fileName), "chart", items)
    ELSE NewSource(PlainName(fileName), "numerical", items)

\* faulty variant: the chart test made before the numerical test
ClassifyLegacyArray_ChartFirst(items, fileName) ==
    LET firstItem == items[1] IN
    IF IsObjectWith(firstItem, {"title", "coordinates"})
    THEN NewSource(ChartsName(fileName), "chart", items)
    ELSE IF IsObjectWith(firstItem, {"value", "year"})
    THEN NewSource(PlainName(fileName), "numerical", items)
    ELSE Thrown("The uploaded array does not contain recognizable data items")

\* the array branch, for a non-empty array
ClassifyLegacyArray(items, fileName) ==
    LET firstItem == items[1] IN
    IF IsObjectWith(firstItem, {"value", "year"})
    THEN NewSource(PlainName(fileName), "numerical", items)
    ELSE IF IsObjectWith(firstItem, {"title", "coordinates"})
    THEN NewSource(ChartsName(fileName), "chart", items)
    ELSE Thrown("The uploaded array does not contain recognizable data items")

\* faulty variant: the envelope's source named after the file, as the legacy branches do
ClassifyJson_NamedAfterFile(parsed, fileName) ==
    IF parsed.t = "invalid" THEN Thrown("SyntaxError")
    ELSE IF /\ parsed.t = "object"
            /\ parsed.name.t = "string"
            /\ parsed.dataType.t = "string"
            /\ parsed.dataType.s \in {PlainName("numerical"), PlainName("chart")}
            /\ parsed.data.t = "array"
    THEN NewSource(PlainName(fileName), parsed.dataType.s.base, parsed.data.items)
    ELSE IF parsed.t = "array"
    THEN IF Len(parsed.items) = 0
         THEN NewSource(PlainName(fileName), "numerical", <<>>)
         ELSE IF IsObjectWith(parsed.items[1], {"value", "year"})
         THEN NewSource(PlainName(fileName), "numerical", parsed.items)
         ELSE IF IsObjectWith(parsed.items[1], {"title", "coordinates"})
         THEN NewSource(ChartsName(fileName), "chart", parsed.items)
         ELSE Thrown("The uploaded array does not contain recognizable data items")
    ELSE Thrown("Invalid JSON format")

\* the classification of handleJsonFileSelectedForUpload: the source to add, or
\* the error thrown
ClassifyJson(parsed, fileName) ==
    IF parsed.t = "invalid" THEN Thrown("SyntaxError")
    ELSE IF /\ parsed.t = "object"
            /\ parsed.name.t = "string"
            /\ parsed.dataType.t = "string"
            /\ parsed.dataType.s \in {PlainName("numerical"), PlainName("chart")}
            /\ parsed.data.t = "array"
    THEN NewSource(parsed.name.s, parsed.dataType.s.base, parsed.data.items)
    ELSE IF parsed.t = "array"
    THEN IF Len(parsed.items) = 0
         THEN NewSource(PlainName(fileName), "numerical", <<>>)
         ELSE ClassifyLegacyArray(parsed.items, fileName)
    ELSE Thrown("Invalid JSON format")

-----------------------------------------------------------------------------
(* The data source registry *)

Ids(sources) == {sources[i].id : i \in 1..Len(sources)}

\* the useEffect on [dataSources, activeDataSourceId]
ActiveSourceEffect(sources, active) ==
    IF Len(sources) > 0 /\ active = Null THEN sources[Len(sources)].id
    ELSE IF Len(sources) = 0 THEN Null
    ELSE active

\* faulty variant: prev => [newSource, ...prev]
AppendSource_Prepend(prev, newSource) == <<newSource>> \o prev

\* faulty variant: [...dataSources, newSource] with the registry the numeric
\* handler closed over when it was called
AppendSource_StaleClosure(prev, newSource) ==
    IF startedFrom.tracked /\ newSource.dataType = "numerical" /\ newSource.type = "pdf"
    THEN Append(startedFrom.numerical.dataSources, newSource)
    ELSE Append(prev, newSource)

\* prev => [...prev, newSource]
AppendSource(prev, newSource) == Append(prev, newSource)

\* prev => prev.filter(src => src.id !== activeDataSourceId)
RECURSIVE FilterOut(_, _)
FilterOut(prev, id) ==
    IF prev = <<>> THEN <<>>
    ELSE IF Head(prev).id # id THEN <<Head(prev)>> \o FilterOut(Tail(prev), id)
    ELSE FilterOut(Tail(prev), id)

\* faulty variant: the options rendered from every id ever handed out, removed sources included
SelectableIds_EverIssued(sources) == Ids(sources) \cup 1..MaxAdds

\* the <option>s of the data source <select>, and the buttons of the chat tab
SelectableIds(sources) == Ids(sources)

\* setDataSources(prev => [...prev, newSource]); setActiveDataSourceId(newSource.id);
\* then the effect
AddSource(name, type, dataType, data) ==
    LET newSource == [id |-> nextId + 1, name |-> name, type |-> type,
                      dataType |-> dataType, data |-> data]
    IN  /\ nextId < MaxAdds
        /\ nextId' = nextId + 1
        /\ dataSources' = AppendSource(dataSources, newSource)
        /\ activeDataSourceId' = ActiveSourceEffect(dataSources', newSource.id)

Op(op, via, file, removed) == [op |-> op, via |-> via, file |-> file, removed |-> removed]

Idle == [stage |-> "idle", fileName |-> ""]

RemoveAt(seq, i) == SubSeq(seq, 1, i - 1) \o SubSeq(seq, i + 1, Len(seq))

\* History of what each handler saw when it was called: the registry and the
\* active id of the render in which handleNumericalSubmit,
\* handleChartExtractionSubmit or handleJsonFileChange started.  An extraction
\* that added its source keeps the entry until the next one starts; one that
\* failed, or has not run, is NotInFlight.  Untracked where no property reads
\* the history.
Untracked == [tracked |-> FALSE]

NotInFlight == [inFlight |-> FALSE]

Snapshot == [dataSources |-> dataSources, activeDataSourceId |-> activeDataSourceId]

TrackedFrom(numericalStart, chartStart, jsonStarts) ==
    [tracked |-> TRUE, numerical |-> numericalStart, chart |-> chartStart, json |-> jsonStarts]

Started(kind) ==
    IF ~startedFrom.tracked THEN Untracked
    ELSE CASE kind = "numerical" -> [startedFrom EXCEPT !.numerical = Snapshot]
           [] kind = "chart"     -> [startedFrom EXCEPT !.chart = Snapshot]
           [] kind = "json"      -> [startedFrom EXCEPT !.json = Append(@, Snapshot)]

Settled(kind) ==
    IF ~startedFrom.tracked THEN Untracked
    ELSE CASE kind = "numerical" -> [startedFrom EXCEPT !.numerical = NotInFlight]
           [] kind = "chart"     -> [startedFrom EXCEPT !.chart = NotInFlight]

JsonSettled(i) ==
    IF ~startedFrom.tracked THEN Untracked
    ELSE [startedFrom EXCEPT !.json = RemoveAt(@, i)]

PdfNames == {"report.pdf"}

\* what analyzeDocument may resolve to, and the charts the cropping loop may build
AnalyzedData == {<<>>, <<NumericItem>>}
CroppedCharts == {<<>>, <<ChartItem>>}

InitApp(files) ==
    /\ userFiles = files
    /\ dataSources = <<>>
    /\ activeDataSourceId = Null
    /\ nextId = 0
    /\ jsonReads = <<>>
    /\ jsonProcessingLoading = FALSE
    /\ jsonProcessingError = NoError
    /\ numerical = Idle
    /\ numericalProcessingLoading = FALSE
    /\ chart = Idle
    /\ chartProcessingLoading = FALSE
    /\ lastOp = Op("init", "", NoFile, FALSE)

\* handleJsonFileSelectedForUpload(file), up to `await file.text()`
JsonUploadStart(file) ==
    /\ Len(jsonReads) < MaxInFlight
    /\ jsonReads' = Append(jsonReads, file)
    /\ jsonProcessingLoading' = TRUE
    /\ jsonProcessingError' = NoError
    /\ lastOp' = Op("step", "", NoFile, FALSE)
    /\ startedFrom' = Started("json")
    /\ UNCHANGED <<parseVars, exportVars, analyzeVars, chatVars, viewVars, userFiles, dataSources, activeDataSourceId, nextId, numerical,
                   numericalProcessingLoading, chart, chartProcessingLoading>>


\* handleJsonFileSelectedForUpload, from the text read to the end: a source is added
JsonUploadAdd(i) ==
    LET file == jsonReads[i]
        c    == ClassifyJson(file.content, file.name)
    IN  /\ c.ok
        /\ AddSource(c.name, "json", c.dataType, c.data)
        /\ jsonReads' = RemoveAt(jsonReads, i)
        /\ jsonProcessingLoading' = FALSE
        /\ jsonProcessingError' = NoError
        /\ lastOp' = Op("add", "json", file, FALSE)
        /\ startedFrom' = JsonSettled(i)
        /\ UNCHANGED <<parseVars, exportVars, analyzeVars, chatVars, viewVars, userFiles, numerical, numericalProcessingLoading, chart,
                       chartProcessingLoading>>

\* handleJsonFileSelectedForUpload, from the text read to the end: an error is thrown
JsonUploadFail(i) ==
    LET file == jsonReads[i]
        c    == ClassifyJson(file.content, file.name)
    IN  /\ ~c.ok
        /\ jsonReads' = RemoveAt(jsonReads, i)
        /\ jsonProcessingLoading' = FALSE
        /\ jsonProcessingError' = c.error
        /\ lastOp' = Op("fail", "json", file, FALSE)
        /\ startedFrom' = JsonSettled(i)
        /\ UNCHANGED <<parseVars, exportVars, analyzeVars, chatVars, viewVars, userFiles, dataSources, activeDataSourceId, nextId, numerical,
                       numericalProcessingLoading, chart, chartProcessingLoading>>

\* handleNumericalSubmit up to `await extractTextFromPdf(...)`; the button is
\* disabled while numericalProcessingLoading
NumericalSubmit(fileName) ==
    /\ ~numericalProcessingLoading
    /\ numerical.stage = "idle"
    /\ IF apiKey
          THEN /\ numerical' = [stage |-> "extractText", fileName |-> fileName]
               /\ numericalProcessingLoading' = TRUE
               /\ lastOp' = Op("step", "", NoFile, FALSE)
               /\ startedFrom' = Started("numerical")
          ELSE /\ lastOp' = Op("fail", "numerical", NoFile, FALSE)
               /\ UNCHANGED <<numerical, numericalProcessingLoading, startedFrom>>
    /\ UNCHANGED <<parseVars, exportVars, analyzeVars, chatVars, viewVars, jsonProcessingError, userFiles, dataSources, activeDataSourceId, nextId, jsonReads,
                   jsonProcessingLoading, chart, chartProcessingLoading>>

\* extractTextFromPdf resolved with pages: on to `await analyzeDocument(...)`
NumericalTextExtracted ==
    /\ numerical.stage = "extractText"
    /\ numerical' = [numerical EXCEPT !.stage = "analyze"]
    /\ lastOp' = Op("step", "", NoFile, FALSE)
    /\ UNCHANGED <<parseVars, serviceVars, jsonProcessingError, userFiles, dataSources, activeDataSourceId, nextId, jsonReads,
                   jsonProcessingLoading, numericalProcessingLoading, chart,
                   chartProcessingLoading>>

\* analyzeDocument resolved: the source is added
NumericalAdd(data) ==
    /\ numerical.stage = "analyze"
    /\ AddSource(PlainName(numerical.fileName), "pdf", "numerical", data)
    /\ numerical' = Idle
    /\ numericalProcessingLoading' = FALSE
    /\ lastOp' = Op("add", "numerical", NoFile, FALSE)
    /\ UNCHANGED <<parseVars, startedFrom, viewVars, exportVars, analyzeVars, chatVars, jsonProcessingError, userFiles, jsonReads, jsonProcessingLoading, chart,
                   chartProcessingLoading>>

\* A catch block that also drops what the registry holds.
NumericalFail_ClearsRegistry ==
    /\ numerical.stage \in {"extractText", "analyze"}
    /\ numerical' = Idle
    /\ numericalProcessingLoading' = FALSE
    /\ dataSources' = <<>>
    /\ activeDataSourceId' = Null
    /\ lastOp' = Op("fail", "numerical", NoFile, FALSE)
    /\ startedFrom' = Settled("numerical")
    /\ UNCHANGED <<parseVars, exportVars, analyzeVars, chatVars, viewVars, jsonProcessingError, userFiles, nextId, jsonReads,
                   jsonProcessingLoading, chart, chartProcessingLoading>>

\* either await rejected, or no page text was extracted: catch and finally
NumericalFail ==
    /\ numerical.stage \in {"extractText", "analyze"}
    /\ numerical' = Idle
    /\ numericalProcessingLoading' = FALSE
    /\ lastOp' = Op("fail", "numerical", NoFile, FALSE)
    /\ startedFrom' = Settled("numerical")
    /\ UNCHANGED <<parseVars, exportVars, analyzeVars, chatVars, viewVars, jsonProcessingError, userFiles, dataSources, activeDataSourceId, nextId, jsonReads,
                   jsonProcessingLoading, chart, chartProcessingLoading>>

\* handleChartExtractionSubmit up to `await renderPdfPagesToImages(...)`
ChartSubmit(fileName) ==
    /\ ~chartProcessingLoading
    /\ chart.stage = "idle"
    /\ IF apiKey
          THEN /\ chart' = [stage |-> "render", fileName |-> fileName]
               /\ chartProcessingLoading' = TRUE
               /\ lastOp' = Op("step", "", NoFile, FALSE)
               /\ startedFrom' = Started("chart")
          ELSE /\ lastOp' = Op("fail", "chart", NoFile, FALSE)
               /\ UNCHANGED <<chart, chartProcessingLoading, startedFrom>>
    /\ UNCHANGED <<parseVars, exportVars, analyzeVars, chatVars, viewVars, jsonProcessingError, userFiles, dataSources, activeDataSourceId, nextId, jsonReads,
                   jsonProcessingLoading, numerical, numericalProcessingLoading>>

\* renderPdfPagesToImages resolved with pages: on to `await analyzeImagesForCharts(...)`
ChartPagesRendered ==
    /\ chart.stage = "render"
    /\ chart' = [chart EXCEPT !.stage = "analyze"]
    /\ lastOp' = Op("step", "", NoFile, FALSE)
    /\ UNCHANGED <<parseVars, serviceVars, jsonProcessingError, userFiles, dataSources, activeDataSourceId, nextId, jsonReads,
                   jsonProcessingLoading, numerical, numericalProcessingLoading,
                   chartProcessingLoading>>

\* analyzeImagesForCharts resolved and the charts were cropped: the source is added
ChartAdd(charts) ==
    /\ chart.stage = "analyze"
    /\ AddSource(ChartsName(chart.fileName), "pdf", "chart", charts)
    /\ chart' = Idle
    /\ chartProcessingLoading' = FALSE
    /\ lastOp' = Op("add", "chart", NoFile, FALSE)
    /\ UNCHANGED <<parseVars, startedFrom, viewVars, exportVars, analyzeVars, chatVars, jsonProcessingError, userFiles, jsonReads, jsonProcessingLoading, numerical,
                   numericalProcessingLoading>>

\* an await rejected, or no page was rendered: catch and finally
ChartFail ==
    /\ chart.stage \in {"render", "analyze"}
    /\ chart' = Idle
    /\ chartProcessingLoading' = FALSE
    /\ lastOp' = Op("fail", "chart", NoFile, FALSE)
    /\ startedFrom' = Settled("chart")
    /\ UNCHANGED <<parseVars, exportVars, analyzeVars, chatVars, viewVars, jsonProcessingError, userFiles, dataSources, activeDataSourceId, nextId, jsonReads,
                   jsonProcessingLoading, numerical, numericalProcessingLoading>>

\* The cropping loop of handleChartExtractionSubmit, one image at a time:
\* analyzeImagesForCharts resolved with these charts
ChartAnalyzed(charts) ==
    /\ chart.stage = "analyze"
    /\ chart' = [stage |-> "crop", fileName |-> chart.fileName, charts |-> charts, loaded |-> 0]
    /\ lastOp' = Op("step", "", NoFile, FALSE)
    /\ UNCHANGED <<parseVars, serviceVars, jsonProcessingError, userFiles, dataSources, activeDataSourceId, nextId, jsonReads,
                   jsonProcessingLoading, numerical, numericalProcessingLoading, chartProcessingLoading>>

\* `await new Promise(resolve => { image.onload = resolve; })`: the image of
\* the next chart's page loaded, the chart is cropped
CropImageLoaded ==
    /\ chart.stage = "crop"
    /\ chart.loaded < Len(chart.charts)
    /\ chart' = [chart EXCEPT !.loaded = @ + 1]
    /\ lastOp' = Op("step", "", NoFile, FALSE)
    /\ UNCHANGED <<parseVars, serviceVars, jsonProcessingError, userFiles, dataSources, activeDataSourceId, nextId, jsonReads,
                   jsonProcessingLoading, numerical, numericalProcessingLoading, chartProcessingLoading>>

\* the image failed to load: the browser fires its error event, which has no
\* handler, and the promise the loop awaits is never settled
CropImageFailed ==
    /\ chart.stage = "crop"
    /\ chart.loaded < Len(chart.charts)
    /\ chart' = [chart EXCEPT !.stage = "crop awaits onload"]
    /\ lastOp' = Op("step", "", NoFile, FALSE)
    /\ UNCHANGED <<parseVars, serviceVars, jsonProcessingError, userFiles, dataSources, activeDataSourceId, nextId, jsonReads,
                   jsonProcessingLoading, numerical, numericalProcessingLoading, chartProcessingLoading>>

\* after the loop: the source is added, then finally
ChartCropped ==
    /\ chart.stage = "crop"
    /\ chart.loaded = Len(chart.charts)
    /\ AddSource(ChartsName(chart.fileName), "pdf", "chart", chart.charts)
    /\ chart' = Idle
    /\ chartProcessingLoading' = FALSE
    /\ lastOp' = Op("add", "chart", NoFile, FALSE)
    /\ UNCHANGED <<parseVars, serviceVars, jsonProcessingError, userFiles, jsonReads, jsonProcessingLoading, numerical,
                   numericalProcessingLoading>>

\* handleApiKeyChange: the key field is edited; an empty field is no key
handleApiKeyChange(newKey) ==
    /\ apiKey # newKey
    /\ apiKey' = newKey
    /\ lastOp' = Op("key", "", NoFile, FALSE)
    /\ UNCHANGED <<parseVars, exportVars, chatVars, startedFrom, viewVars, provider, appVersion, responseText, normalized,
                   providerResponse, analysis, userFiles, dataSources, activeDataSourceId, nextId, jsonReads,
                   jsonProcessingLoading, jsonProcessingError, numerical, numericalProcessingLoading, chart,
                   chartProcessingLoading>>

\* handleRemoveActiveDataSource, then the effect
RemoveActiveDataSource ==
    /\ activeDataSourceId # Null
    /\ dataSources' = FilterOut(dataSources, activeDataSourceId)
    /\ activeDataSourceId' = ActiveSourceEffect(dataSources', activeDataSourceId)
    /\ lastOp' = Op("remove", "", NoFile, activeDataSourceId \in Ids(dataSources))
    /\ UNCHANGED <<parseVars, serviceVars, jsonProcessingError, userFiles, nextId, jsonReads, jsonProcessingLoading, numerical,
                   numericalProcessingLoading, chart, chartProcessingLoading>>

\* onChange of the <select> / onClick of a chat-tab source button, then the effect
SelectDataSource(id) ==
    /\ activeDataSourceId' = ActiveSourceEffect(dataSources, id)
    /\ lastOp' = Op("select", "", NoFile, FALSE)
    /\ UNCHANGED <<parseVars, serviceVars, jsonProcessingError, userFiles, dataSources, nextId, jsonReads, jsonProcessingLoading,
                   numerical, numericalProcessingLoading, chart, chartProcessingLoading>>

-----------------------------------------------------------------------------
(* The provider services: analyzeDocument *)

Providers == {"ollama", "gemini", "azure"}

AppVersions == {"part_000", "App.tsx"}

\* a response text is a sequence of lexemes: the fence (three backquotes), the
\* word json, a line break and the JSON tokens [ ] 1 {"financialData": }
Fence == "<fence>"
LineBreak == "\n"
OpenFinancialData == "{\"financialData\":"

\* /^<fence>(?:json)?\s*\n?(.*?)\n?\s*<fence>$/s on s.trim(): the text between an
\* opening fence (with its optional json tag) and a closing fence at the very
\* end, trimmed; the trimmed text itself when there is no match or the group
\* is empty
stripCodeFence(s) ==
    LET t == Trim(s) IN
    IF Len(t) >= 2 /\ t[1] = Fence /\ t[Len(t)] = Fence
    THEN LET inner == SubSeq(t, 2, Len(t) - 1)
             body  == IF inner # <<>> /\ Head(inner) = "json" THEN Tail(inner) ELSE inner
             m1    == Trim(body)
         IN  IF m1 # <<>> THEN m1 ELSE t
    ELSE t

\* what JSON.parse gives for these tokens: a number, an array, an object with
\* the one property financialData, or a SyntaxError
JNumber == [t |-> "number", items |-> <<>>, financialData |-> <<>>]
JArray(items) == [t |-> "array", items |-> items, financialData |-> <<>>]
JObject(financialData) == [t |-> "object", items |-> <<>>, financialData |-> <<financialData>>]
SyntaxError == [t |-> "SyntaxError", items |-> <<>>, financialData |-> <<>>]

RECURSIVE SkipSpace(_, _)
SkipSpace(s, i) == IF i <= Len(s) /\ IsWhite(s[i]) THEN SkipSpace(s, i + 1) ELSE i

RECURSIVE SkipDigits(_, _)
SkipDigits(s, i) == IF i <= Len(s) /\ s[i] = "1" THEN SkipDigits(s, i + 1) ELSE i

NoValue == [ok |-> FALSE, value |-> SyntaxError, next |-> 0]

\* JSON.parse, one value from position i0 on: digits, [ ] with at most one
\* element, or {"financialData": value}; white space between tokens is skipped
RECURSIVE ParseValue(_, _)
ParseValue(s, i0) ==
    LET i == SkipSpace(s, i0) IN
    IF i > Len(s) THEN NoValue
    ELSE IF s[i] = "1" THEN [ok |-> TRUE, value |-> JNumber, next |-> SkipDigits(s, i)]
    ELSE IF s[i] = "["
    THEN LET j == SkipSpace(s, i + 1) IN
         IF j <= Len(s) /\ s[j] = "]"
         THEN [ok |-> TRUE, value |-> JArray(<<>>), next |-> j + 1]
         ELSE LET r == ParseValue(s, j) IN
              IF r.ok /\ SkipSpace(s, r.next) <= Len(s) /\ s[SkipSpace(s, r.next)] = "]"
              THEN [ok |-> TRUE, value |-> JArray(<<r.value>>),
                    next |-> SkipSpace(s, r.next) + 1]
              ELSE NoValue
    ELSE IF s[i] = OpenFinancialData
    THEN LET r == ParseValue(s, i + 1) IN
         IF r.ok /\ SkipSpace(s, r.next) <= Len(s) /\ s[SkipSpace(s, r.next)] = "}"
         THEN [ok |-> TRUE, value |-> JObject(r.value), next |-> SkipSpace(s, r.next) + 1]
         ELSE NoValue
    ELSE NoValue

JSONParse(s) ==
    LET r == ParseValue(s, 1) IN
    IF r.ok /\ SkipSpace(s, r.next) = Len(s) + 1 THEN r.value ELSE SyntaxError

\* the value of a property of a response element: undefined, null, true, a
\* number (written in decimal) or a string, as characters
FUndefined == [t |-> "undefined", chars |-> <<>>]
FNull == [t |-> "null", chars |-> <<>>]
FTrue == [t |-> "boolean", chars |-> <<"t", "r", "u", "e">>]
FNumber(chars) == [t |-> "number", chars |-> chars]
FString(chars) == [t |-> "string", chars |-> chars]
FNaN == FNumber(<<"N", "a", "N">>)
NotAvailable == FString(<<"N", "/", "A">>)

\* String(v)
JSString(v) ==
    CASE v.t = "undefined" -> <<"u", "n", "d", "e", "f", "i", "n", "e", "d">>
      [] v.t = "null" -> <<"n", "u", "l", "l">>
      [] OTHER -> v.chars

\* an element of the parsed array, with its year and value properties
\* (undefined on anything but an object that has them)
ResponseItem(t, year, value) == [t |-> t, year |-> year, value |-> value]

ItemOf(v) == ResponseItem(v.t, FUndefined, FUndefined)

\* the properties of the records analyzeDocument returns
AnalyzedKeys ==
    {"name", "subcategory", "value", "unit", "period", "year", "page", "source", "file",
     "bankName", "documentType"}

\* item.year throws a TypeError for null; item?.year does not
CoercionThrows(p, item) == p \in {"gemini", "azure"} /\ item.t = "null"

\* the callback of arr.map: year is parseInt(String(item.year), 10) or 0; value
\* is item.value unless undefined (also unless null, with ??)
CoerceItem(p, item) ==
    LET year == ParseInt(JSString(item.year)) IN
    [t |-> "object", keys |-> AnalyzedKeys,
     year |-> FNumber(ToStr(IF year.nan THEN 0 ELSE year.val)),
     value |-> IF p = "ollama"
               THEN IF item.value.t \in {"undefined", "null"} THEN NotAvailable
                    ELSE item.value
               ELSE IF item.value.t = "undefined" THEN NotAvailable ELSE item.value]

\* an error is told by the fixed part of its message; the sample of the answer
\* that some messages quote is left out
Failure(message) == [ok |-> FALSE, data |-> <<>>, error |-> message]
Records(data) == [ok |-> TRUE, data |-> data, error |-> ""]

\* parsedData.map(...): the records, or the error analyzeDocument ends with when
\* the callback throws (Gemini catches the TypeError and reports a parse failure)
MapItems(p, items) ==
    IF \E k \in 1..Len(items) : CoercionThrows(p, items[k])
    THEN Failure(IF p = "gemini" THEN "Failed to parse AI's JSON response" ELSE "TypeError")
    ELSE Records([k \in 1..Len(items) |-> CoerceItem(p, items[k])])

ItemsOf(parsed) == [k \in 1..Len(parsed.items) |-> ItemOf(parsed.items[k])]

\* analyzeDocument from the provider's answer on
analyzeDocument(p, text) ==
    IF p = "ollama"
    THEN IF Trim(text) = <<>> THEN Failure("Empty response from Ollama")
         ELSE LET parsed == JSONParse(stripCodeFence(Trim(text))) IN
              IF parsed.t # "array" THEN Failure("Failed to parse AI JSON")
              ELSE MapItems(p, ItemsOf(parsed))
    ELSE IF p = "gemini"
    THEN LET parsed == JSONParse(stripCodeFence(text)) IN
         IF parsed.t # "array" THEN Failure("Failed to parse AI's JSON response")
         ELSE MapItems(p, ItemsOf(parsed))
    ELSE LET content == JSONParse(text) IN
         IF content.t = "SyntaxError" THEN Failure("SyntaxError")
         ELSE IF content.t = "object" /\ content.financialData[1].t = "array"
         THEN MapItems(p, ItemsOf(content.financialData[1]))
         ELSE Failure("AI response did not contain the expected 'financialData' array")

\* value.replace(/[^0-9.-]/g, '')
StripNonNumeric(chars) == SelectSeq(chars, LAMBDA c : c \in Digits \cup {".", "-"})

RECURSIVE DigitRun(_, _)
DigitRun(s, i) == IF i <= Len(s) /\ s[i] \in Digits THEN DigitRun(s, i + 1) ELSE i

\* parseFloat: the longest prefix that is a decimal literal, NaN without a digit
ParseFloat(s) ==
    LET i0   == IF s # <<>> /\ s[1] = "-" THEN 2 ELSE 1
        i1   == DigitRun(s, i0)
        i2   == IF i1 <= Len(s) /\ s[i1] = "." THEN DigitRun(s, i1 + 1) ELSE i1
        some == i1 > i0 \/ i2 > i1 + 1
    IN  IF some THEN FNumber(SubSeq(s, 1, i2 - 1)) ELSE FNaN

\* App.tsx: processedData; part_000 stores what analyzeDocument returned
ProcessedData(version, data) ==
    IF version = "App.tsx"
    THEN [k \in 1..Len(data) |->
            IF data[k].value.t = "string"
            THEN [data[k] EXCEPT !.value = ParseFloat(StripNonNumeric(data[k].value.chars))]
            ELSE data[k]]
    ELSE data

NotNormalized == [ok |-> FALSE, data |-> <<>>, error |-> "not run"]
NotAnalyzed == NotNormalized

InitAnalyze ==
    /\ provider = "gemini"
    /\ appVersion = "part_000"
    /\ apiKey = TRUE
    /\ responseText = <<>>
    /\ normalized = [plain |-> NotNormalized, json |-> NotNormalized, bare |-> NotNormalized]
    /\ providerResponse = <<>>
    /\ analysis = NotAnalyzed

\* analyzeDocument receives the text as it is
NormalizePlain ==
    /\ normalized.plain = NotNormalized
    /\ normalized' = [normalized EXCEPT !.plain = analyzeDocument(provider, responseText)]
    /\ UNCHANGED <<parseVars, startedFrom, viewVars, appVars, exportVars, chatVars, provider, appVersion, apiKey,
                   responseText, providerResponse, analysis>>

\* analyzeDocument receives the text inside a fence tagged json
NormalizeJsonFenced ==
    /\ normalized.json = NotNormalized
    /\ normalized' =
          [normalized EXCEPT !.json =
              analyzeDocument(provider, <<Fence, "json", LineBreak>> \o responseText
                                        \o <<LineBreak, Fence>>)]
    /\ UNCHANGED <<parseVars, startedFrom, viewVars, appVars, exportVars, chatVars, provider, appVersion, apiKey,
                   responseText, providerResponse, analysis>>

\* analyzeDocument receives the text inside an untagged fence
NormalizeBareFenced ==
    /\ normalized.bare = NotNormalized
    /\ normalized' =
          [normalized EXCEPT !.bare =
              analyzeDocument(provider, <<Fence, LineBreak>> \o responseText
                                        \o <<LineBreak, Fence>>)]
    /\ UNCHANGED <<parseVars, startedFrom, viewVars, appVars, exportVars, chatVars, provider, appVersion, apiKey,
                   responseText, providerResponse, analysis>>

\* handleNumericalSubmit / handlePdfSubmit from the await of analyzeDocument on,
\* the provider's answer parsing to providerResponse
NumericalAnalyzed ==
    /\ numerical.stage = "analyze"
    /\ analysis' = MapItems(provider, providerResponse)
    /\ IF analysis'.ok
       THEN /\ AddSource(PlainName(numerical.fileName), "pdf", "numerical",
                         ProcessedData(appVersion, analysis'.data))
            /\ lastOp' = Op("add", "numerical", NoFile, FALSE)
       ELSE /\ lastOp' = Op("fail", "numerical", NoFile, FALSE)
            /\ UNCHANGED <<dataSources, activeDataSourceId, nextId>>
    /\ numerical' = Idle
    /\ numericalProcessingLoading' = FALSE
    /\ UNCHANGED <<parseVars, startedFrom, viewVars, exportVars, chatVars, userFiles, jsonReads,
                   jsonProcessingLoading, jsonProcessingError, chart, chartProcessingLoading,
                   provider, appVersion, apiKey, responseText, normalized, providerResponse>>

-----------------------------------------------------------------------------
(* The chat: handleSendChatMessage, queryExtractedData, fillTemplateWithData *)

maxContextLength == 150000

\* most messages in the chat log
MaxLog == 12

Max(a, b) == IF a > b THEN a ELSE b

\* a numeric record whose JSON text, with its indentation, separators and its
\* share of the source's key, takes chars characters
SizedRecord(chars) == [t |-> "object", keys |-> AnalyzedKeys, chars |-> chars]

\* a chart record whose JSON text without its id takes chars characters
SizedChart(chars) ==
    [t |-> "object", keys |-> {"pageNumber", "title", "file", "imageDataUrl", "id"},
     chars |-> chars]

\* { id: uuidv4(), sender, text, timestamp }: the id is the message's place in the log
ChatMessage(id, sender, text) == [id |-> id, sender |-> sender, text |-> text]

NoPrompt == [sent |-> FALSE]

\* queryExtractedData threw before building a prompt: no API key
MissingKey == [sent |-> FALSE, error |-> "API Key is not provided"]

\* how the provider call of a question ends: an answer, a non-success HTTP
\* status, or fetch rejecting
ProviderOutcomes == {"ok", "http error", "network error"}

\* the promise queryExtractedData returned resolves: with the answer, and for
\* Ollama also with a sentence about the HTTP status
QueryResolves(p, outcome) == outcome = "ok" \/ (p = "ollama" /\ outcome = "http error")

\* aiResponseText
AnswerText(outcome) ==
    IF outcome = "ok" THEN "answer"
    ELSE "I tried to process your request, but Ollama returned HTTP"

\* setChatError(`Chat error: ${chatErrorMessage}`)
ChatErrorLine(outcome) ==
    CASE outcome = "missing key" -> "Chat error: API Key is not provided"
      [] outcome = "http error" -> "Chat error: HTTP error"
      [] OTHER -> "Chat error: Failed to fetch"

ErrorReplyText == "Sorry, I encountered an error"

\* ds => ds.dataType === 'numerical'
RECURSIVE NumericalSources(_)
NumericalSources(sources) ==
    IF sources = <<>> THEN <<>>
    ELSE IF Head(sources).dataType = "numerical"
         THEN <<Head(sources)>> \o NumericalSources(Tail(sources))
         ELSE NumericalSources(Tail(sources))

\* bucket[source.name] = source.data for the non-empty sources of one
\* dataType: a later source replaces an earlier one of the same name
BagOf(sources, dataType) ==
    SelectSeq([i \in 1..Len(sources) |->
                  [name |-> sources[i].name,
                   data |-> IF /\ sources[i].dataType = dataType
                               /\ Len(sources[i].data) > 0
                               /\ \A j \in (i + 1)..Len(sources) :
                                     ~(/\ sources[j].name = sources[i].name
                                       /\ sources[j].dataType = dataType
                                       /\ Len(sources[j].data) > 0)
                            THEN sources[i].data ELSE <<>>]],
              LAMBDA entry : entry.data # <<>>)

\* the numerical bucket: contextDataForPrompt.numericalData, bag, contextData, acc
ContextBag(sources) == BagOf(sources, "numerical")

\* contextDataForPrompt.chartData, which only Gemini's queryExtractedData builds
ChartBag(p, call, sources) ==
    IF p = "gemini" /\ call = "query" THEN BagOf(sources, "chart") ELSE <<>>

\* the keys of a bucket
BagNames(bag) == {bag[i].name : i \in 1..Len(bag)}

RECURSIVE DataChars(_)
DataChars(data) == IF data = <<>> THEN 0 ELSE Head(data).chars + DataChars(Tail(data))

RECURSIVE BagChars(_)
BagChars(bag) == IF bag = <<>> THEN 0 ELSE DataChars(Head(bag).data) + BagChars(Tail(bag))

\* JSON.stringify(x, null, 2).length of the empty context: {} for a bag,
\* 44 characters for Gemini's { numericalData: {}, chartData: {} }
EmptyContextChars(p, call) == IF p = "gemini" /\ call = "query" THEN 44 ELSE 2

\* contextDataString.length
StringifyLength(p, call, sources) ==
    EmptyContextChars(p, call) + BagChars(ContextBag(sources))
        + BagChars(ChartBag(p, call, sources))

\* the if (contextDataString.length > 150000) block: the text kept, whether the
\* marker is appended, and isTruncated (fillTemplateWithData has no such flag)
ContextOf(p, call, sources) ==
    LET length == StringifyLength(p, call, sources) IN
    [serialized |-> length,
     kept       |-> IF length > maxContextLength THEN maxContextLength ELSE length,
     marker     |-> length > maxContextLength,
     note       |-> call = "query" /\ length > maxContextLength,
     numericalData |-> BagNames(ContextBag(sources)),
     chartData  |-> BagNames(ChartBag(p, call, sources))]

\* faulty variant: the whole log taken as the recent history
recentHistory_WholeLog(chatHistory) == chatHistory

\* chatHistory.slice(-10)
recentHistory(chatHistory) ==
    SubSeq(chatHistory, Max(1, Len(chatHistory) - 9), Len(chatHistory))

\* the turns put in the prompt: Gemini and Ollama format recent.slice(0, -1)
\* when recent has more than one message; Azure pushes them all and pops the
\* last one when it is a user message
HistoryOf(p, chatHistory) ==
    LET recent == recentHistory(chatHistory) IN
    IF p = "azure"
    THEN IF recent # <<>> /\ recent[Len(recent)].sender = "user"
         THEN SubSeq(recent, 1, Len(recent) - 1) ELSE recent
    ELSE IF Len(recent) > 1 THEN SubSeq(recent, 1, Len(recent) - 1) ELSE <<>>

\* queryExtractedData up to the call of the provider: no prompt when there is
\* nothing to query
queryExtractedData(p, question, allDataSources, chatHistory, key) ==
    IF p # "ollama" /\ ~key THEN MissingKey
    ELSE IF \/ (p # "azure" /\ allDataSources = <<>>)
            \/ (p = "azure" /\ ContextBag(allDataSources) = <<>>)
    THEN NoPrompt
    ELSE [sent |-> TRUE, call |-> "query", question |-> question,
          context |-> ContextOf(p, "query", allDataSources),
          history |-> HistoryOf(p, chatHistory)]

\* fillTemplateWithData up to the call of the provider
fillTemplateWithData(p, allDataSources) ==
    [sent |-> TRUE, call |-> "fill", context |-> ContextOf(p, "fill", allDataSources)]

InitChat ==
    /\ chatMessages = <<>>
    /\ isChatLoading = FALSE
    /\ chatError = NoError
    /\ chatQuery = NoPrompt
    /\ templateFill = NoPrompt

\* the input texts of the chat box
ChatTexts == {<<>>, <<" ">>, <<"q">>}

\* faulty variant: a submit is accepted while a question is in flight
SubmitRejected_IgnoresLoading(inputText, isLoading) == Trim(inputText) = <<>>

\* if (!inputText.trim() || isLoading) return;
SubmitRejected(inputText, isLoading) == Trim(inputText) = <<>> \/ isLoading

\* faulty variant: the question replaces the last message of the log
WithNewUserMessage_OverLast(log, newUserMessage) ==
    IF log = <<>> THEN <<newUserMessage>>
    ELSE SubSeq(log, 1, Len(log) - 1) \o <<newUserMessage>>

\* [...chatMessages, newUserMessage]
WithNewUserMessage(log, newUserMessage) == Append(log, newUserMessage)

\* faulty variant: prev => [newAiMessage, ...prev]
AppendReply_Prepend(prev, reply) == <<reply>> \o prev

\* prev => [...prev, newAiMessage]
AppendReply(prev, reply) == Append(prev, reply)

\* ChatInterface's handleSubmit and handleSendChatMessage up to the await;
\* lastOp tells a rejected submit from a question sent
SendChatMessage(inputText) ==
    /\ Len(chatMessages) + 2 <= MaxLog
    /\ LET numericalDataSources == NumericalSources(dataSources)
           newUserMessage == ChatMessage(Len(chatMessages) + 1, "user", "question")
           updatedChatMessages == WithNewUserMessage(chatMessages, newUserMessage)
       IN  IF SubmitRejected(inputText, isChatLoading)
           THEN /\ lastOp' = Op("reject", "chat", NoFile, FALSE)
                /\ UNCHANGED <<chatMessages, isChatLoading, chatError, chatQuery>>
           ELSE IF numericalDataSources = <<>>
           THEN /\ chatError' = "Cannot send message: No numerical data sources are available."
                /\ lastOp' = Op("reject", "chat", NoFile, FALSE)
                /\ UNCHANGED <<chatMessages, isChatLoading, chatQuery>>
           ELSE IF \A i \in 1..Len(numericalDataSources) : numericalDataSources[i].data = <<>>
           THEN /\ chatError' =
                      "Cannot send message: All available numerical data sources are empty."
                /\ lastOp' = Op("reject", "chat", NoFile, FALSE)
                /\ UNCHANGED <<chatMessages, isChatLoading, chatQuery>>
           ELSE /\ chatMessages' = updatedChatMessages
                /\ isChatLoading' = TRUE
                /\ chatError' = NoError
                /\ chatQuery' = queryExtractedData(provider, newUserMessage,
                                                   numericalDataSources, updatedChatMessages,
                                                   apiKey)
                /\ lastOp' = Op("send", "chat", NoFile, FALSE)
    /\ UNCHANGED <<parseVars, startedFrom, viewVars, exportVars, analyzeVars, templateFill, userFiles, dataSources,
                   activeDataSourceId, nextId, jsonReads, jsonProcessingLoading,
                   jsonProcessingError, numerical, numericalProcessingLoading, chart,
                   chartProcessingLoading>>

\* the promise resolved: the AI message is appended; finally
ChatAnswered(outcome) ==
    /\ isChatLoading
    /\ chatQuery # MissingKey
    /\ QueryResolves(provider, outcome)
    /\ chatMessages' = AppendReply(chatMessages,
                                   ChatMessage(Len(chatMessages) + 1, "ai", AnswerText(outcome)))
    /\ isChatLoading' = FALSE
    /\ lastOp' = Op("chat", outcome, NoFile, FALSE)
    /\ UNCHANGED <<parseVars, startedFrom, viewVars, exportVars, analyzeVars, chatError, chatQuery, templateFill,
                   userFiles, dataSources, activeDataSourceId, nextId, jsonReads,
                   jsonProcessingLoading, jsonProcessingError, numerical,
                   numericalProcessingLoading, chart, chartProcessingLoading>>

\* queryExtractedData threw: the error line is set and an apology is appended;
\* finally
ChatFailed(outcome) ==
    /\ isChatLoading
    /\ IF chatQuery = MissingKey THEN outcome = "missing key"
       ELSE outcome \in ProviderOutcomes /\ ~QueryResolves(provider, outcome)
    /\ chatError' = ChatErrorLine(outcome)
    /\ chatMessages' = AppendReply(chatMessages,
                                   ChatMessage(Len(chatMessages) + 1, "ai", ErrorReplyText))
    /\ isChatLoading' = FALSE
    /\ lastOp' = Op("chat", outcome, NoFile, FALSE)
    /\ UNCHANGED <<parseVars, startedFrom, viewVars, exportVars, analyzeVars, chatQuery, templateFill, userFiles,
                   dataSources, activeDataSourceId, nextId, jsonReads, jsonProcessingLoading,
                   jsonProcessingError, numerical, numericalProcessingLoading, chart,
                   chartProcessingLoading>>

\* fillTemplateWithData called with the registry (Gemini and Azure export it)
FillTemplate ==
    /\ provider \in {"gemini", "azure"}
    /\ templateFill' = fillTemplateWithData(provider, dataSources)
    /\ UNCHANGED <<parseVars, startedFrom, viewVars, appVars, exportVars, analyzeVars, chatMessages, isChatLoading,
                   chatError, chatQuery>>

-----------------------------------------------------------------------------
(* The provider services: analyzeImagesForCharts *)

\* renderPdfPagesToImages pushes one image per page of the parsed range, in
\* the order of the range, which parsePageRangeString returns ascending and
\* without repeats; the App stops before the analysis when there is none.
RECURSIVE Ascending(_)
Ascending(pages) ==
    IF pages = {} THEN <<>>
    ELSE LET least == CHOOSE p \in pages : \A q \in pages : p <= q
         IN  <<least>> \o Ascending(pages \ {least})

PageLists == {Ascending(pages) : pages \in (SUBSET (1..MaxPages)) \ {{}}}

\* the titles of the charts array of one page's response; a title that trims
\* to nothing is skipped
PageTitles == {<<>>, <<"Revenue">>, <<" ", "Revenue">>, <<"Revenue", "Costs">>}

RECURSIVE TitledCharts(_, _)
TitledCharts(pageNumber, titles) ==
    IF titles = <<>> THEN <<>>
    ELSE (IF Head(titles) = " " THEN <<>> ELSE <<[pageNumber |-> pageNumber, title |-> Head(titles)]>>)
         \o TitledCharts(pageNumber, Tail(titles))

\* no analysis running
NoLoop ==
    [pageImages |-> <<>>, i |-> 0, awaiting |-> FALSE, calls |-> <<>>, errors |-> <<>>,
     allExtractedCharts |-> <<>>, returned |-> FALSE]

\* the loop body up to the await of the provider call for pageImages[i]
PageCallStart ==
    /\ ~chartLoop.returned
    /\ ~chartLoop.awaiting
    /\ chartLoop.i < Len(chartLoop.pageImages)
    /\ chartLoop' = [chartLoop EXCEPT !.awaiting = TRUE,
                                      !.calls = Append(@, chartLoop.pageImages[chartLoop.i + 1])]
    /\ UNCHANGED <<parseVars, appVars, exportVars, analyzeVars, chatVars, startedFrom, templateView>>

\* the call resolved with a JSON object whose charts array holds these titles
PageCallResolved(titles) ==
    /\ chartLoop.awaiting
    /\ chartLoop' = [chartLoop EXCEPT !.awaiting = FALSE,
                                      !.i = @ + 1,
                                      !.allExtractedCharts =
                                          @ \o TitledCharts(chartLoop.pageImages[chartLoop.i + 1], titles)]
    /\ UNCHANGED <<parseVars, appVars, exportVars, analyzeVars, chatVars, startedFrom, templateView>>

\* faulty variant: the first failed page ends the loop
PageCallRejected_Aborts ==
    /\ chartLoop.awaiting
    /\ chartLoop' = [chartLoop EXCEPT !.awaiting = FALSE,
                                      !.i = Len(chartLoop.pageImages),
                                      !.errors = Append(@, chartLoop.pageImages[chartLoop.i + 1])]
    /\ UNCHANGED <<parseVars, appVars, exportVars, analyzeVars, chatVars, startedFrom, templateView>>

\* the call rejected, or its text was not JSON: the catch logs the page and
\* the loop goes on
PageCallRejected ==
    /\ chartLoop.awaiting
    /\ chartLoop' = [chartLoop EXCEPT !.awaiting = FALSE,
                                      !.i = @ + 1,
                                      !.errors = Append(@, chartLoop.pageImages[chartLoop.i + 1])]
    /\ UNCHANGED <<parseVars, appVars, exportVars, analyzeVars, chatVars, startedFrom, templateView>>

\* after the loop: return allExtractedCharts
AnalyzeImagesReturn ==
    /\ ~chartLoop.returned
    /\ ~chartLoop.awaiting
    /\ chartLoop.i = Len(chartLoop.pageImages)
    /\ chartLoop' = [chartLoop EXCEPT !.returned = TRUE]
    /\ UNCHANGED <<parseVars, appVars, exportVars, analyzeVars, chatVars, startedFrom, templateView>>

-----------------------------------------------------------------------------
(* ChatInterface: TemplateResponseRenderer *)

\* longest enumerated filledTemplate, in pieces
MaxTemplate == 5

\* A filledTemplate is a sequence of pieces of text: the pieces the pattern
\* /({{FILL_\d+}})|(\[Data Not Found\])/g tells apart, and a piece of other
\* text.
OpenBraces == "{{"
CloseBraces == "}}"
FillWord == "FILL_"
NotFoundText == "[Data Not Found]"
Pieces == {"a", OpenBraces, FillWord, "0", CloseBraces, NotFoundText}

IsDigitPiece(c) == c \in {"0"}

\* \d+ from position k: the number of digits matched
RECURSIVE DigitsAt(_, _)
DigitsAt(text, k) ==
    IF k <= Len(text) /\ IsDigitPiece(text[k]) THEN 1 + DigitsAt(text, k + 1) ELSE 0

\* the length of the match of {{FILL_\d+}} at position k, 0 when there is none
PlaceholderAt(text, k) ==
    LET d == DigitsAt(text, k + 2)
    IN  IF /\ k + 3 <= Len(text)
           /\ text[k] = OpenBraces
           /\ text[k + 1] = FillWord
           /\ d >= 1
           /\ k + 2 + d <= Len(text)
           /\ text[k + 2 + d] = CloseBraces
        THEN d + 3
        ELSE 0

\* /^{{FILL_\d+}}$/.test(part)
IsPlaceholder(part) == part # <<>> /\ PlaceholderAt(part, 1) = Len(part)

\* filledTemplate.split(placeholderRegex).filter(part => part): the matches
\* and the text between them, empty parts dropped; pending is the text since
\* the last match
RECURSIVE SplitAtMatches(_, _, _)
SplitAtMatches(text, k, pending) ==
    LET flushed == IF pending = <<>> THEN <<>> ELSE <<pending>>
        n       == PlaceholderAt(text, k)
    IN  IF k > Len(text) THEN flushed
        ELSE IF n > 0 THEN flushed \o <<SubSeq(text, k, k + n - 1)>> \o SplitAtMatches(text, k + n, <<>>)
        ELSE IF text[k] = NotFoundText THEN flushed \o <<(<<NotFoundText>>)>> \o SplitAtMatches(text, k + 1, <<>>)
        ELSE SplitAtMatches(text, k + 1, Append(pending, text[k]))

SplitParts(filledTemplate) == SplitAtMatches(filledTemplate, 1, <<>>)

\* new Map(values.map(v => [v.placeholder, v])).get(part): the last entry
\* with that placeholder, or undefined
NoEntry == [placeholder |-> <<>>, value |-> <<>>]

RECURSIVE valuesMapGet(_, _)
valuesMapGet(values, part) ==
    IF values = <<>> THEN NoEntry
    ELSE IF values[Len(values)].placeholder = part THEN values[Len(values)]
    ELSE valuesMapGet(SubSeq(values, 1, Len(values) - 1), part)

\* what parts.map returns for one part: the grey span of a not-found text, the
\* button of a placeholder with an entry, a plain span of anything else
RenderPart(values, part) ==
    IF part = <<NotFoundText>> THEN [element |-> "not found", text |-> part]
    ELSE IF IsPlaceholder(part) /\ valuesMapGet(values, part) # NoEntry
         THEN [element |-> "button", text |-> valuesMapGet(values, part).value]
    ELSE [element |-> "span", text |-> part]

RenderParts(response) ==
    LET parts == SplitParts(response.filledTemplate)
    IN  [index \in 1..Len(parts) |-> RenderPart(response.values, parts[index])]

Placeholder(digits) == <<OpenBraces, FillWord>> \o digits \o <<CloseBraces>>

\* the values arrays a response may carry: none, one entry, two entries for
\* the same placeholder, an entry for a placeholder of two digits
ValueLists ==
    { <<>>,
      <<[placeholder |-> Placeholder(<<"0">>), value |-> <<"1,234.56">>]>>,
      <<[placeholder |-> Placeholder(<<"0">>), value |-> <<"1,234.56">>],
        [placeholder |-> Placeholder(<<"0">>), value |-> <<"78%">>]>>,
      <<[placeholder |-> Placeholder(<<"0", "0">>), value |-> <<"9">>]>> }

Templates == UNION {[1..n -> Pieces] : n \in 0..MaxTemplate}

\* the shape check of fillTemplateWithData lets every response through whose
\* filledTemplate is a string and whose values is an array
Responses == [filledTemplate : Templates, values : ValueLists]

NoView == [rendered |-> FALSE]

\* the component renders a message's templateResponse
RenderTemplate ==
    /\ ~templateView.rendered
    /\ templateView' = [templateView EXCEPT !.rendered = TRUE, !.shown = RenderParts(templateView.response)]
    /\ UNCHANGED <<parseVars, appVars, exportVars, analyzeVars, chatVars, startedFrom, chartLoop>>

InitView ==
    /\ chartLoop = NoLoop
    /\ templateView = NoView

-----------------------------------------------------------------------------
(* DataDisplay: the single-source downloads and the ZIP export *)

\* `const { id, ...rest } = item` throws a TypeError for null
CanStripId(item) == item.t # "null"

\* ({ id, ...rest }) => rest: the own properties but id; a number has none
StripId(item) == IF item.t = "object" THEN Obj(item.keys \ {"id"}) ELSE Obj({})

\* data.map(({ id, ...rest }) => rest)
MapStripId(data) == [j \in 1..Len(data) |-> StripId(data[j])]

\* the map throws as soon as an element cannot be destructured
MapStripIdThrows(data) == \E j \in 1..Len(data) : ~CanStripId(data[j])

\* JSON.stringify({ name, dataType, data }, null, 2) as JSON.parse reads it back:
\* null, numbers and the keys of objects are written and read unchanged
Envelope(name, dataType, data) ==
    JsonObject(StringValue(name), StringValue(PlainName(dataType)), ArrayValue(data))

\* downloadJson: name without its .pdf/.json extension, the characters outside
\* [a-zA-Z0-9_-] removed, then ".json" (no page suffix for a source of type 'json')
NumericalDownloadName(name) ==
    CASE name = PlainName("a.json") -> "a.json"
      [] name = PlainName("legacy.json") -> "legacy.json"
      [] name = PlainName("Q1") -> "Q1.json"
      [] name = PlainName("report.pdf") -> "report.json"
      [] name = ChartsName("a.json") -> "ajsonCharts.json"
      [] name = ChartsName("legacy.json") -> "legacyjsonCharts.json"
      [] name = ChartsName("report.pdf") -> "reportpdfCharts.json"

\* downloadChartJson: name without " (Charts)" and ".pdf", then "_charts.json"
ChartDownloadName(name) ==
    CASE name.base = "a.json" -> "a.json_charts.json"
      [] name.base = "legacy.json" -> "legacy.json_charts.json"
      [] name.base = "Q1" -> "Q1_charts.json"
      [] name.base = "report.pdf" -> "report_charts.json"

\* downloadAllSourcesAsZip: name without its extension, the characters outside
\* [a-zA-Z0-9_-] replaced by "_"
ZipBaseName(name) ==
    CASE name = PlainName("a.json") -> "a"
      [] name = PlainName("legacy.json") -> "legacy"
      [] name = PlainName("Q1") -> "Q1"
      [] name = PlainName("report.pdf") -> "report"
      [] name = ChartsName("a.json") -> "a_json__Charts_"
      [] name = ChartsName("legacy.json") -> "legacy_json__Charts_"
      [] name = ChartsName("report.pdf") -> "report_pdf__Charts_"

\* `${baseName}_${source.dataType}.json`
ZipFileName(source) ==
    LET baseName == ZipBaseName(source.name) IN
    IF source.dataType = "numerical"
    THEN CASE baseName = "a" -> "a_numerical.json"
           [] baseName = "legacy" -> "legacy_numerical.json"
           [] baseName = "Q1" -> "Q1_numerical.json"
           [] baseName = "report" -> "report_numerical.json"
           [] baseName = "a_json__Charts_" -> "a_json__Charts__numerical.json"
           [] baseName = "legacy_json__Charts_" -> "legacy_json__Charts__numerical.json"
           [] baseName = "report_pdf__Charts_" -> "report_pdf__Charts__numerical.json"
    ELSE CASE baseName = "a" -> "a_chart.json"
           [] baseName = "legacy" -> "legacy_chart.json"
           [] baseName = "Q1" -> "Q1_chart.json"
           [] baseName = "report" -> "report_chart.json"
           [] baseName = "a_json__Charts_" -> "a_json__Charts__chart.json"
           [] baseName = "legacy_json__Charts_" -> "legacy_json__Charts__chart.json"
           [] baseName = "report_pdf__Charts_" -> "report_pdf__Charts__chart.json"

\* JSZip.file(name, data): an entry of that name is replaced, else one is added
ZipFile(entries, name, content) ==
    IF \E k \in 1..Len(entries) : entries[k].name = name
    THEN [k \in 1..Len(entries) |->
            IF entries[k].name = name THEN JsonFile(name, content) ELSE entries[k]]
    ELSE Append(entries, JsonFile(name, content))

\* the loop over allDataSources
RECURSIVE ZipSources(_, _)
ZipSources(sources, entries) ==
    IF sources = <<>> THEN entries
    ELSE ZipSources(Tail(sources),
                    ZipFile(entries, ZipFileName(Head(sources)),
                            Envelope(Head(sources).name, Head(sources).dataType,
                                     MapStripId(Head(sources).data))))

\* the entry of the archive that carries a source's file name
EntryNamed(entries, name) == CHOOSE e \in {entries[k] : k \in 1..Len(entries)} : e.name = name

ZipIdle == [stage |-> "idle", sources |-> <<>>, entries |-> <<>>]

InitHistory ==
    /\ startedFrom = Untracked
    /\ InitView

InitExport ==
    /\ isZipping = FALSE
    /\ zip = ZipIdle
    /\ exported = {}

InitServices ==
    /\ InitExport
    /\ InitAnalyze
    /\ InitChat
    /\ InitHistory

\* const activeDataSource = dataSources.find(src => src.id === activeDataSourceId) || null
HasActiveDataSource == activeDataSourceId \in Ids(dataSources)

ActiveDataSource ==
    dataSources[CHOOSE i \in 1..Len(dataSources) : dataSources[i].id = activeDataSourceId]

\* <DataDisplay> is rendered for an active source that is not empty
DataDisplayed == HasActiveDataSource /\ Len(ActiveDataSource.data) > 0

\* "Download JSON": downloadChartJson for a chart source, downloadJson otherwise;
\* the file saved is one the user can upload again
DownloadJson ==
    /\ DataDisplayed
    /\ LET dataSource == ActiveDataSource
           isChart    == dataSource.dataType = "chart"
           file       == IF isChart
                         THEN JsonFile(ChartDownloadName(dataSource.name),
                                       Envelope(dataSource.name, "chart",
                                                MapStripId(dataSource.data)))
                         ELSE JsonFile(NumericalDownloadName(dataSource.name),
                                       Envelope(dataSource.name, "numerical", dataSource.data))
       IN  IF isChart /\ MapStripIdThrows(dataSource.data)
           THEN /\ lastOp' = Op("throw", "download", NoFile, FALSE)
                /\ UNCHANGED <<userFiles, exported>>
           ELSE /\ lastOp' = Op("download", "json", file, FALSE)
                /\ userFiles' = userFiles \cup {file}
                /\ exported' = exported \cup {[file |-> file, source |-> dataSource]}
    /\ UNCHANGED <<parseVars, startedFrom, viewVars, dataSources, activeDataSourceId, nextId, jsonReads,
                   jsonProcessingLoading, jsonProcessingError, numerical,
                   numericalProcessingLoading, chart, chartProcessingLoading, isZipping, zip,
                   analyzeVars, chatVars>>

\* "Download All (ZIP)", up to `await zip.generateAsync(...)`; allDataSources is
\* the registry
DownloadAllSourcesAsZip ==
    /\ DataDisplayed
    /\ ~isZipping /\ Len(dataSources) > 0
    /\ isZipping' = TRUE
    /\ IF \E i \in 1..Len(dataSources) : MapStripIdThrows(dataSources[i].data)
       THEN /\ zip' = [stage |-> "thrown", sources |-> dataSources, entries |-> <<>>]
            /\ lastOp' = Op("throw", "zip", NoFile, FALSE)
       ELSE /\ zip' = [stage |-> "generate", sources |-> dataSources,
                       entries |-> ZipSources(dataSources, <<>>)]
            /\ lastOp' = Op("step", "", NoFile, FALSE)
    /\ UNCHANGED <<parseVars, startedFrom, viewVars, userFiles, dataSources, activeDataSourceId, nextId, jsonReads,
                   jsonProcessingLoading, jsonProcessingError, numerical,
                   numericalProcessingLoading, chart, chartProcessingLoading, exported,
                   analyzeVars, chatVars>>

\* generateAsync resolved: the archive is saved, and with it one file per entry
ZipGenerated ==
    /\ zip.stage = "generate"
    /\ zip' = [zip EXCEPT !.stage = "done"]
    /\ isZipping' = FALSE
    /\ userFiles' = userFiles \cup {zip.entries[k] : k \in 1..Len(zip.entries)}
    /\ exported' = exported \cup
          {[file |-> EntryNamed(zip.entries, ZipFileName(zip.sources[i])),
            source |-> zip.sources[i]] : i \in 1..Len(zip.sources)}
    /\ lastOp' = Op("download", "zip", NoFile, FALSE)
    /\ UNCHANGED <<parseVars, startedFrom, viewVars, dataSources, activeDataSourceId, nextId, jsonReads,
                   jsonProcessingLoading, jsonProcessingError, numerical,
                   numericalProcessingLoading, chart, chartProcessingLoading, analyzeVars, chatVars>>

Next ==
    \/ \E file \in userFiles : JsonUploadStart(file)
    \/ \E i \in 1..Len(jsonReads) : JsonUploadAdd(i)
    \/ \E i \in 1..Len(jsonReads) : JsonUploadFail(i)
    \/ \E fileName \in PdfNames : NumericalSubmit(fileName)
    \/ NumericalTextExtracted
    \/ \E data \in AnalyzedData : NumericalAdd(data)
    \/ NumericalFail
    \/ \E fileName \in PdfNames : ChartSubmit(fileName)
    \/ ChartPagesRendered
    \/ \E charts \in CroppedCharts : ChartAdd(charts)
    \/ ChartFail
    \/ RemoveActiveDataSource
    \/ \E id \in SelectableIds(dataSources) : SelectDataSource(id)

\* the files of the registry runs: an envelope, a legacy array and an
\* unrecognized array
SmallFiles ==
    { JsonFile("a.json", JsonObject(StringValue(PlainName("Q1")),
                                    StringValue(PlainName("numerical")),
                                    ArrayValue(<<Obj({"value", "year"})>>))),
      JsonFile("a.json", JsonArray(<<Obj({"title", "coordinates"})>>)),
      JsonFile("b.json", JsonArray(<<Obj({"foo"})>>)) }

Init ==
    /\ rangeStr = <<>>
    /\ maxPage = 0
    /\ parseResult = [ok |-> FALSE, pages |-> <<>>, error |-> "not run", named |-> <<>>]
    /\ reparseResult = parseResult
    /\ InitApp(SmallFiles)
    /\ InitServices

Spec == Init /\ [][Next]_vars

-----------------------------------------------------------------------------
(* Inputs of the JSON import reconciler *)

Items ==
    { NullItem, NumberItem,
      Obj({"value", "year"}),
      Obj({"title", "coordinates"}), Obj({"title", "pageNumber"}),
      Obj({"value", "year", "title", "coordinates"}),
      Obj({"foo"}) }

RECURSIVE ArraysUpTo(_)
ArraysUpTo(n) ==
    IF n = 0 THEN {<<>>}
    ELSE LET shorter == ArraysUpTo(n - 1)
         IN  shorter \cup {Append(a, x) : a \in {b \in shorter : Len(b) = n - 1}, x \in Items}

NameValues == {Undefined, NumberValue, StringValue(PlainName("Q1"))}

DataTypeValues ==
    {Undefined} \cup
    {StringValue(PlainName(s)) : s \in {"numerical", "chart", "table"}}

DataValues ==
    {Undefined, StringValue(PlainName("Q1"))} \cup {ArrayValue(a) : a \in ArraysUpTo(MaxItems)}

JsonContents ==
    {JsonObject(n, t, d) : n \in NameValues, t \in DataTypeValues, d \in DataValues}
    \cup {JsonArray(a) : a \in ArraysUpTo(MaxItems)}
    \cup {JsonOther(t) : t \in {"null", "number", "invalid"}}

JsonFileNames == {"a.json", "legacy.json"}

AllFiles == {JsonFile(n, c) : n \in JsonFileNames, c \in JsonContents}

\* a session in which the user uploads one given file, any file
InitImport ==
    /\ rangeStr = <<>>
    /\ maxPage = 0
    /\ parseResult = [ok |-> FALSE, pages |-> <<>>, error |-> "not run", named |-> <<>>]
    /\ reparseResult = parseResult
    /\ \E file \in AllFiles : InitApp({file})
    /\ InitServices

\* the steps of handleJsonFileSelectedForUpload alone
NextImport ==
    \/ \E file \in userFiles : JsonUploadStart(file)
    \/ \E i \in 1..Len(jsonReads) : JsonUploadAdd(i)
    \/ \E i \in 1..Len(jsonReads) : JsonUploadFail(i)

\* Failing operations next to the ones that succeed, with the history of what
\* each handler started from
FailureFiles ==
    { JsonFile("a.json", JsonArray(<<Obj({"title", "coordinates"})>>)),
      JsonFile("b.json", JsonArray(<<Obj({"foo"})>>)) }

InitFailure ==
    /\ rangeStr = <<>>
    /\ maxPage = 0
    /\ parseResult = [ok |-> FALSE, pages |-> <<>>, error |-> "not run", named |-> <<>>]
    /\ reparseResult = parseResult
    /\ InitApp(FailureFiles)
    /\ InitExport
    /\ InitChat
    /\ provider = "gemini"
    /\ appVersion = "part_000"
    /\ apiKey \in BOOLEAN
    /\ responseText = <<>>
    /\ normalized = [plain |-> NotNormalized, json |-> NotNormalized, bare |-> NotNormalized]
    /\ providerResponse = <<>>
    /\ analysis = NotAnalyzed
    /\ startedFrom = TrackedFrom(NotInFlight, NotInFlight, <<>>)
    /\ InitView

NextFailure ==
    \/ \E file \in userFiles : JsonUploadStart(file)
    \/ \E i \in 1..Len(jsonReads) : JsonUploadAdd(i)
    \/ \E i \in 1..Len(jsonReads) : JsonUploadFail(i)
    \/ \E fileName \in PdfNames : NumericalSubmit(fileName)
    \/ NumericalTextExtracted
    \/ NumericalAdd(<<NumericItem>>)
    \/ NumericalFail
    \/ \E fileName \in PdfNames : ChartSubmit(fileName)
    \/ ChartPagesRendered
    \/ ChartAdd(<<ChartItem>>)
    \/ ChartFail
    \/ RemoveActiveDataSource

SpecFailure == InitFailure /\ [][NextFailure]_vars

\* analyzeImagesForCharts of the Gemini and of the Azure service on the images
\* of a page range
InitCharts ==
    /\ rangeStr = <<>>
    /\ maxPage = 0
    /\ parseResult = [ok |-> FALSE, pages |-> <<>>, error |-> "not run", named |-> <<>>]
    /\ reparseResult = parseResult
    /\ InitApp({})
    /\ InitExport
    /\ InitChat
    /\ provider \in {"gemini", "azure"}
    /\ appVersion = "part_000"
    /\ apiKey = TRUE
    /\ responseText = <<>>
    /\ normalized = [plain |-> NotNormalized, json |-> NotNormalized, bare |-> NotNormalized]
    /\ providerResponse = <<>>
    /\ analysis = NotAnalyzed
    /\ startedFrom = Untracked
    /\ \E pageImages \in PageLists : chartLoop = [NoLoop EXCEPT !.pageImages = pageImages]
    /\ templateView = NoView

NextCharts ==
    \/ PageCallStart
    \/ \E titles \in PageTitles : PageCallResolved(titles)
    \/ PageCallRejected
    \/ AnalyzeImagesReturn

SpecCharts == InitCharts /\ [][NextCharts]_vars

\* TemplateResponseRenderer on the responses the shape check lets through
InitRender ==
    /\ rangeStr = <<>>
    /\ maxPage = 0
    /\ parseResult = [ok |-> FALSE, pages |-> <<>>, error |-> "not run", named |-> <<>>]
    /\ reparseResult = parseResult
    /\ InitApp({})
    /\ InitExport
    /\ InitChat
    /\ InitAnalyze
    /\ startedFrom = Untracked
    /\ chartLoop = NoLoop
    /\ \E response \in Responses : templateView = [rendered |-> FALSE, response |-> response, shown |-> <<>>]

NextRender == RenderTemplate

SpecRender == InitRender /\ [][NextRender]_vars

SpecImport == InitImport /\ [][NextImport]_vars

\* import, download and import again
NextExport ==
    \/ \E file \in userFiles : JsonUploadStart(file)
    \/ \E i \in 1..Len(jsonReads) : JsonUploadAdd(i)
    \/ \E i \in 1..Len(jsonReads) : JsonUploadFail(i)
    \/ DownloadJson
    \/ DownloadAllSourcesAsZip
    \/ ZipGenerated

\* the files of the export runs: legacy arrays and envelopes, two of them under
\* one file name, with well-formed and with malformed elements, and an array
\* the import rejects
ExportFiles ==
    { JsonFile("a.json", JsonArray(<<Obj({"value", "year"})>>)),
      JsonFile("a.json", JsonArray(<<Obj({"value", "year"}), Obj({"value", "year", "id"})>>)),
      JsonFile("a.json", JsonArray(<<>>)),
      JsonFile("b.json", JsonArray(<<Obj({"foo"})>>)),
      JsonFile("legacy.json", JsonArray(<<ChartItem>>)),
      JsonFile("legacy.json", JsonObject(StringValue(PlainName("Q1")),
                                         StringValue(PlainName("numerical")),
                                         ArrayValue(<<NumericItem>>))),
      JsonFile("a.json", JsonObject(StringValue(PlainName("Q1")),
                                    StringValue(PlainName("chart")),
                                    ArrayValue(<<NumberItem>>))),
      JsonFile("a.json", JsonObject(StringValue(PlainName("Q1")),
                                    StringValue(PlainName("numerical")),
                                    ArrayValue(<<Obj({"value", "year"}), NullItem>>))) }

\* a session in which the user has one or two of these files
InitExportRun ==
    /\ rangeStr = <<>>
    /\ maxPage = 0
    /\ parseResult = [ok |-> FALSE, pages |-> <<>>, error |-> "not run", named |-> <<>>]
    /\ reparseResult = parseResult
    /\ \E f \in ExportFiles, g \in ExportFiles : InitApp({f, g})
    /\ InitServices

SpecExport == InitExportRun /\ [][NextExport]_vars

\* the answers of the normalizer runs: every text of at most MaxText lexemes
MaxText == 4

ResponseAlphabet == {Fence, "json", LineBreak, "[", "]", "1", OpenFinancialData, "}"}

ResponseTexts == UNION {[1..n -> ResponseAlphabet] : n \in 0..MaxText}

InitFence ==
    /\ rangeStr = <<>>
    /\ maxPage = 0
    /\ parseResult = [ok |-> FALSE, pages |-> <<>>, error |-> "not run", named |-> <<>>]
    /\ reparseResult = parseResult
    /\ InitApp({})
    /\ InitExport
    /\ InitChat
    /\ InitHistory
    /\ provider \in Providers
    /\ appVersion = "part_000"
    /\ apiKey = TRUE
    /\ responseText \in ResponseTexts
    /\ normalized = [plain |-> NotNormalized, json |-> NotNormalized, bare |-> NotNormalized]
    /\ providerResponse = <<>>
    /\ analysis = NotAnalyzed

NextFence == NormalizePlain \/ NormalizeJsonFenced \/ NormalizeBareFenced

SpecFence == InitFence /\ [][NextFence]_vars

\* the answers of the analysis runs: arrays of at most MaxElems elements, an
\* element being null, a number, a string or an object with or without year
\* and value
MaxElems == 2

YearValues ==
    {FUndefined, FNumber(<<"2", "0", "2", "4">>), FString(<<"2", "0", "2", "4">>),
     FString(<<"F", "Y", "2", "4">>)}

ValueValues ==
    {FUndefined, FNull, FTrue, FNumber(<<"5">>), FString(<<"1", "2", ",", "5">>),
     NotAvailable}

ResponseItems ==
    {ResponseItem("object", year, value) : year \in YearValues, value \in ValueValues}
        \cup {ResponseItem(t, FUndefined, FUndefined) : t \in {"null", "number", "string"}}

ProviderResponses == UNION {[1..n -> ResponseItems] : n \in 0..MaxElems}

InitAnalysisRun ==
    /\ rangeStr = <<>>
    /\ maxPage = 0
    /\ parseResult = [ok |-> FALSE, pages |-> <<>>, error |-> "not run", named |-> <<>>]
    /\ reparseResult = parseResult
    /\ InitApp({})
    /\ InitExport
    /\ InitChat
    /\ InitHistory
    /\ provider \in Providers
    /\ appVersion \in AppVersions
    /\ apiKey = TRUE
    /\ responseText = <<>>
    /\ normalized = [plain |-> NotNormalized, json |-> NotNormalized, bare |-> NotNormalized]
    /\ providerResponse \in ProviderResponses
    /\ analysis = NotAnalyzed

NextAnalyze ==
    \/ \E fileName \in PdfNames : NumericalSubmit(fileName)
    \/ NumericalTextExtracted
    \/ NumericalAnalyzed
    \/ NumericalFail

SpecAnalyze == InitAnalysisRun /\ [][NextAnalyze]_vars


\* the chat runs: extractions that add sources of these sizes, then questions
\* that are all answered
SizedData ==
    {<<>>, <<SizedRecord(100)>>, <<SizedRecord(149998)>>, <<SizedRecord(149999)>>}

SizedCharts == {<<>>, <<SizedChart(200)>>}

InitChatRun ==
    /\ rangeStr = <<>>
    /\ maxPage = 0
    /\ parseResult = [ok |-> FALSE, pages |-> <<>>, error |-> "not run", named |-> <<>>]
    /\ reparseResult = parseResult
    /\ InitApp({})
    /\ InitExport
    /\ InitChat
    /\ InitHistory
    /\ provider \in Providers
    /\ appVersion = "part_000"
    /\ apiKey = TRUE
    /\ responseText = <<>>
    /\ normalized = [plain |-> NotNormalized, json |-> NotNormalized, bare |-> NotNormalized]
    /\ providerResponse = <<>>
    /\ analysis = NotAnalyzed

NextChat ==
    \/ \E fileName \in PdfNames : NumericalSubmit(fileName)
    \/ NumericalTextExtracted
    \/ \E data \in SizedData : NumericalAdd(data)
    \/ \E fileName \in PdfNames : ChartSubmit(fileName)
    \/ ChartPagesRendered
    \/ \E charts \in SizedCharts : ChartAdd(charts)
    \/ SendChatMessage(<<"q">>)
    \/ ChatAnswered("ok")
    \/ FillTemplate

SpecChat == InitChatRun /\ [][NextChat]_vars


\* the chat log runs: a small registry, with or without an API key; every
\* submit of the chat box and every outcome of the provider call
MaxQuestions == 3

SmallData == {<<>>, <<SizedRecord(100)>>}

InitChatLog ==
    /\ rangeStr = <<>>
    /\ maxPage = 0
    /\ parseResult = [ok |-> FALSE, pages |-> <<>>, error |-> "not run", named |-> <<>>]
    /\ reparseResult = parseResult
    /\ InitApp({})
    /\ InitExport
    /\ InitChat
    /\ InitHistory
    /\ provider \in Providers
    /\ appVersion = "part_000"
    /\ apiKey \in BOOLEAN
    /\ responseText = <<>>
    /\ normalized = [plain |-> NotNormalized, json |-> NotNormalized, bare |-> NotNormalized]
    /\ providerResponse = <<>>
    /\ analysis = NotAnalyzed

NextChatLog ==
    \/ \E fileName \in PdfNames : NumericalSubmit(fileName)
    \/ NumericalTextExtracted
    \/ \E data \in SmallData : NumericalAdd(data)
    \/ Len(chatMessages) < 2 * MaxQuestions /\ \E inputText \in ChatTexts : SendChatMessage(inputText)
    \/ \E outcome \in ProviderOutcomes : ChatAnswered(outcome)
    \/ \E outcome \in ProviderOutcomes \cup {"missing key"} : ChatFailed(outcome)
    \/ \E newKey \in BOOLEAN : handleApiKeyChange(newKey)

SpecChatLog == InitChatLog /\ [][NextChatLog]_vars

\* The four operations with a loading flag, each awaited step with each of its
\* outcomes.  An operation starts only while the registry has room for its
\* source.
InFlight ==
    Len(jsonReads) + (IF numerical = Idle THEN 0 ELSE 1) + (IF chart = Idle THEN 0 ELSE 1)

HasRoom == nextId + InFlight < MaxAdds

InitLoading ==
    /\ rangeStr = <<>>
    /\ maxPage = 0
    /\ parseResult = [ok |-> FALSE, pages |-> <<>>, error |-> "not run", named |-> <<>>]
    /\ reparseResult = parseResult
    /\ InitApp(FailureFiles)
    /\ InitServices

NumericalSettles ==
    \/ NumericalTextExtracted
    \/ NumericalAdd(<<SizedRecord(100)>>)
    \/ NumericalFail

ChartAwaitSettles ==
    \/ ChartPagesRendered
    \/ \E charts \in CroppedCharts : ChartAnalyzed(charts)
    \/ ChartFail

CropImageSettles ==
    \/ CropImageLoaded
    \/ CropImageFailed

JsonSettles ==
    \/ \E i \in 1..Len(jsonReads) : JsonUploadAdd(i)
    \/ \E i \in 1..Len(jsonReads) : JsonUploadFail(i)

ChatSettles ==
    \/ \E outcome \in ProviderOutcomes : ChatAnswered(outcome)
    \/ \E outcome \in ProviderOutcomes : ChatFailed(outcome)

NextLoading ==
    \/ HasRoom /\ \E file \in userFiles : JsonUploadStart(file)
    \/ HasRoom /\ \E fileName \in PdfNames : NumericalSubmit(fileName)
    \/ HasRoom /\ \E fileName \in PdfNames : ChartSubmit(fileName)
    \/ Len(chatMessages) < 2 * MaxQuestions /\ SendChatMessage(<<"q">>)
    \/ NumericalSettles
    \/ ChartAwaitSettles
    \/ CropImageSettles
    \/ ChartCropped
    \/ JsonSettles
    \/ ChatSettles

SpecLoading == InitLoading /\ [][NextLoading]_vars

\* Every awaited promise that the runtime settles is settled, and the
\* continuation of a settled promise runs: file reads, PDF rendering, provider
\* calls and image loads end one way or the other.
SpecLoadingFair ==
    /\ SpecLoading
    /\ WF_vars(NumericalSettles)
    /\ WF_vars(ChartAwaitSettles)
    /\ WF_vars(CropImageSettles)
    /\ WF_vars(ChartCropped)
    /\ WF_vars(JsonSettles)
    /\ WF_vars(ChatSettles)


-----------------------------------------------------------------------------
(* Inputs of the page-range selector *)

RECURSIVE StringsUpTo(_)
StringsUpTo(n) ==
    IF n = 0 THEN {<<>>}
    ELSE LET shorter == StringsUpTo(n - 1)
         IN  shorter \cup {Append(s, c) : s \in {t \in shorter : Len(t) = n - 1}, c \in Alphabet}

\* the examples of the specification, with maxPage = 10
ExampleInputs ==
    { [str |-> <<"1", ",", "3", ",", "5", "-", "7">>, max |-> 10],
      [str |-> <<"9", "-", "3">>, max |-> 10] }

ParseInputs ==
    [str : StringsUpTo(MaxLen), max : 0..MaxPages] \cup ExampleInputs

NotRun == [ok |-> FALSE, pages |-> <<>>, error |-> "not run", named |-> <<>>]

InitParse ==
    /\ \E in \in ParseInputs : rangeStr = in.str /\ maxPage = in.max
    /\ parseResult = NotRun
    /\ reparseResult = NotRun
    /\ InitApp(SmallFiles)
    /\ InitServices

\* extractTextFromPdf / renderPdfPagesToImages call the parser on the user's text
ParseRange ==
    /\ parseResult = NotRun
    /\ parseResult' = parsePageRangeString(rangeStr, maxPage)
    /\ UNCHANGED <<rangeStr, maxPage, reparseResult, appVars, serviceVars>>

\* the accepted page list written back as a comma-separated string and parsed again
ReparseCanonical ==
    /\ parseResult.ok
    /\ reparseResult = NotRun
    /\ reparseResult' = parsePageRangeString(JoinPages(parseResult.pages), maxPage)
    /\ UNCHANGED <<rangeStr, maxPage, parseResult, appVars, serviceVars>>

NextParse == ParseRange \/ ReparseCanonical

SpecParse == InitParse /\ [][NextParse]_vars

-----------------------------------------------------------------------------
(* Page-range selector: the grammar of the specification *)

\* the tokens of a page-range string: its comma-separated parts, trimmed, the
\* empty ones left out (a blank string has none)
Tokens(s) ==
    LET parts == Split(s, ",")
    IN  {Trim(parts[i]) : i \in {j \in 1..Len(parts) : Trim(parts[j]) # <<>>}}

IsNumeral(t) == t # <<>> /\ \A i \in 1..Len(t) : t[i] \in Digits

NumeralVal(t) == DigitPrefixVal(t, 0)

\* start-end, both numerals (white space around either is let through)
IsRangeShape(t) ==
    /\ Len(Split(t, "-")) = 2
    /\ IsNumeral(Trim(Split(t, "-")[1]))
    /\ IsNumeral(Trim(Split(t, "-")[2]))

RangeStart(t) == NumeralVal(Trim(Split(t, "-")[1]))
RangeEnd(t) == NumeralVal(Trim(Split(t, "-")[2]))

\* a single positive integer, or start-end with both positive and start <= end
WellFormedToken(t) ==
    \/ IsNumeral(t) /\ NumeralVal(t) >= 1
    \/ IsRangeShape(t) /\ RangeStart(t) >= 1 /\ RangeEnd(t) >= 1 /\ RangeStart(t) <= RangeEnd(t)

\* a token that references a page outside [1, n]: a single page, or either end of a range
OutOfRangeToken(t, n) ==
    \/ IsNumeral(t) /\ NumeralVal(t) \notin 1..n
    \/ IsRangeShape(t) /\ (RangeStart(t) \notin 1..n \/ RangeEnd(t) \notin 1..n)

\* the pages a token names, its numerals read the way parseInt reads them
\* (a token the grammar rejects but the parser accepts names what the parser read)
TokenPages(t) ==
    IF Includes(t, "-")
    THEN IF Len(Split(t, "-")) = 2
         THEN ParseInt(Split(t, "-")[1]).val..ParseInt(Split(t, "-")[2]).val
         ELSE {}
    ELSE IF ParseInt(t).nan THEN {} ELSE {ParseInt(t).val}

\* the pages a string names: a blank string means all pages
NamedPages(s, n) ==
    IF Trim(s) = <<>> THEN 1..n ELSE UNION {TokenPages(t) : t \in Tokens(s)}

AllTokensWellFormed(s) == \A t \in Tokens(s) : WellFormedToken(t)

StrictlyAscending(a) == \A i \in 1..(Len(a) - 1) : a[i] < a[i + 1]

SeqRange(a) == {a[i] : i \in 1..Len(a)}

Example1 == <<"1", ",", "3", ",", "5", "-", "7">>

Parsed == parseResult # NotRun

-----------------------------------------------------------------------------
(* Claims about the page-range selector *)

\* C5: every accepted page-range string yields a strictly ascending list
\* without duplicates, of integers in [1, maxPage], that is exactly the union
\* of the pages its tokens name (all pages for a blank string);
\* "1,3,5-7" with maxPage = 10 yields [1,3,5,6,7].
C5_AcceptedListIsAscendingUnion ==
    /\ (Parsed /\ parseResult.ok) =>
          /\ StrictlyAscending(parseResult.pages)
          /\ SeqRange(parseResult.pages) \subseteq 1..maxPage
          /\ SeqRange(parseResult.pages) = NamedPages(rangeStr, maxPage)
    /\ (Parsed /\ rangeStr = Example1 /\ maxPage = 10) =>
          parseResult = Ok(<<1, 3, 5, 6, 7>>)

\* C5 witness: a string naming a page twice and out of order was accepted
C5_Witness ==
    /\ Parsed /\ parseResult.ok
    /\ rangeStr = <<"2", ",", "1", "-", "2">>
    /\ parseResult.pages = <<1, 2>>

\* C6 as claimed: whenever some token references a page outside [1, maxPage]
\* parsing fails, and when that token is the only token the message names it
\* as the user typed it.
C6_OutOfRangeNamesTokenAsTyped ==
    (Parsed /\ \E t \in Tokens(rangeStr) : OutOfRangeToken(t, maxPage)) =>
        /\ ~parseResult.ok
        /\ \A t \in Tokens(rangeStr) : Tokens(rangeStr) = {t} => parseResult.named = t

\* C7 as claimed: a non-empty token that is neither a single positive integer
\* nor start-end (both positive, start <= end) makes parsing fail.
C7_MalformedTokenFails ==
    (Parsed /\ ~AllTokensWellFormed(rangeStr)) => ~parseResult.ok

\* C8: writing an accepted page list back as a comma-separated string and
\* parsing it again with the same maxPage yields the same page list.
C8_ReparseYieldsSamePages ==
    reparseResult # NotRun =>
        reparseResult.ok /\ reparseResult.pages = parseResult.pages

\* C8 witness: the re-parsed string differs from the string first typed
C8_Witness ==
    /\ reparseResult # NotRun /\ reparseResult.ok
    /\ Len(parseResult.pages) >= 2
    /\ JoinPages(parseResult.pages) # rangeStr

-----------------------------------------------------------------------------
(* Claims about the data source registry *)

LastSource == dataSources[Len(dataSources)]

\* C1 as claimed: in every reachable state the active source id is none or the
\* id of a source in the registry; it does not dangle after the active source
\* is removed while other sources remain.
C1_ActiveIdNeverDangles ==
    activeDataSourceId = Null \/ activeDataSourceId \in Ids(dataSources)

\* C2 as claimed: when the active source is removed, the new active source is
\* the last remaining source in insertion order, or none if the registry
\* became empty.
C2_RemoveReassignsToLastRemaining ==
    (lastOp.op = "remove" /\ lastOp.removed) =>
        activeDataSourceId = IF dataSources = <<>> THEN Null ELSE LastSource.id

\* C3: every successful add (numeric extraction, chart extraction, JSON import)
\* appends exactly one new source at the end of the registry, leaves the
\* existing sources and their order unchanged, and makes the new source active.
C3_AddAppendsOneAndActivates ==
    [][lastOp'.op = "add" =>
          /\ Len(dataSources') = Len(dataSources) + 1
          /\ SubSeq(dataSources', 1, Len(dataSources)) = dataSources
          /\ dataSources'[Len(dataSources')].id \notin Ids(dataSources)
          /\ activeDataSourceId' = dataSources'[Len(dataSources')].id]_vars

\* C3 witness: a chart extraction was added behind an imported source and is active
C3_Witness ==
    /\ lastOp.op = "add" /\ lastOp.via = "chart"
    /\ Len(dataSources) = 2
    /\ dataSources[1].type = "json"
    /\ activeDataSourceId = dataSources[2].id

-----------------------------------------------------------------------------
(* Claims about the JSON import reconciler *)

JsonImportEnded == lastOp.op \in {"add", "fail"} /\ lastOp.via = "json"

\* an object (not an array) with a string name, a dataType of 'numerical' or
\* 'chart' and an array data
IsEnvelope(content) ==
    /\ content.t = "object"
    /\ content.name.t = "string"
    /\ content.dataType \in {StringValue(PlainName("numerical")), StringValue(PlainName("chart"))}
    /\ content.data.t = "array"

\* a bare non-empty array whose first element has both a value and a year field
IsLegacyNumeric(content) ==
    /\ content.t = "array"
    /\ Len(content.items) > 0
    /\ content.items[1].t = "object"
    /\ {"value", "year"} \subseteq content.items[1].keys

\* C9: importing an envelope creates a source of type 'json' whose name,
\* dataType and data are exactly the declared ones, whatever the file's name.
C9_EnvelopeAdoptedAsDeclared ==
    (JsonImportEnded /\ IsEnvelope(lastOp.file.content)) =>
        /\ lastOp.op = "add"
        /\ LastSource.type = "json"
        /\ LastSource.name = lastOp.file.content.name.s
        /\ LastSource.dataType = lastOp.file.content.dataType.s.base
        /\ LastSource.data = lastOp.file.content.data.items

\* C9 witness: an envelope declaring 'chart' over numeric-looking records was imported
C9_Witness ==
    /\ lastOp.op = "add" /\ lastOp.via = "json"
    /\ IsEnvelope(lastOp.file.content)
    /\ lastOp.file.name = "legacy.json"
    /\ lastOp.file.content.dataType.s.base = "chart"
    /\ lastOp.file.content.data.items = <<Obj({"value", "year"})>>

\* C10: importing a bare non-empty array whose first element has both a value
\* and a year field creates a numerical source named after the file that
\* contains every element, also when the first element has the chart fields.
C10_LegacyNumericArray ==
    (JsonImportEnded /\ IsLegacyNumeric(lastOp.file.content)) =>
        /\ lastOp.op = "add"
        /\ LastSource.type = "json"
        /\ LastSource.name = PlainName(lastOp.file.name)
        /\ LastSource.dataType = "numerical"
        /\ LastSource.data = lastOp.file.content.items

\* C10 witness: the first element has the numeric and the chart fields, the second is a chart
C10_Witness ==
    /\ lastOp.op = "add" /\ lastOp.via = "json"
    /\ lastOp.file.content.t = "array"
    /\ lastOp.file.content.items =
          <<Obj({"value", "year", "title", "coordinates"}), Obj({"title", "coordinates"})>>
    /\ LastSource.dataType = "numerical"

\* the fields that place a chart record in its document
PageFields == {"pageNumber", "coordinates"}

\* a bare non-empty array whose first element has a title field and a
\* page-identifying field, and does not match the numeric rule
IsLegacyChart(content) ==
    /\ content.t = "array"
    /\ Len(content.items) > 0
    /\ content.items[1].t = "object"
    /\ "title" \in content.items[1].keys
    /\ content.items[1].keys \cap PageFields # {}
    /\ ~IsLegacyNumeric(content)

\* C11 as claimed: importing a bare non-empty array whose first element has a
\* title field and a page-identifying field (such as pageNumber), and does not
\* match the numeric rule, creates a chart source named "<file> (Charts)" that
\* contains every element of the array.
C11_LegacyChartArray ==
    (JsonImportEnded /\ IsLegacyChart(lastOp.file.content)) =>
        /\ lastOp.op = "add"
        /\ LastSource.type = "json"
        /\ LastSource.name = ChartsName(lastOp.file.name)
        /\ LastSource.dataType = "chart"
        /\ LastSource.data = lastOp.file.content.items

\* a JSON value that is none of: envelope, empty array, legacy numeric array,
\* legacy chart array
IsUnrecognized(content) ==
    /\ content.t # "invalid"
    /\ ~IsEnvelope(content)
    /\ ~(content.t = "array" /\ Len(content.items) = 0)
    /\ ~IsLegacyNumeric(content)
    /\ ~IsLegacyChart(content)

\* C12: importing a JSON value that matches none of the envelope, empty-array,
\* legacy-numeric and legacy-chart shapes fails with an error whose message
\* names the expected discriminator fields (value, year and title for an
\* array; name, dataType and data otherwise), and no source is created.
C12_UnrecognizedFormatFails ==
    (JsonImportEnded /\ IsUnrecognized(lastOp.file.content)) =>
        /\ lastOp.op = "fail"
        /\ dataSources = <<>>
        /\ activeDataSourceId = Null
        /\ IF lastOp.file.content.t = "array"
           THEN {"value", "year", "title"} \subseteq FieldsNamedIn(jsonProcessingError)
           ELSE {"name", "dataType", "data"} \subseteq FieldsNamedIn(jsonProcessingError)

\* C12 witness: the array [{"foo": 1}] was refused and the message names the fields
C12_Witness ==
    /\ lastOp.op = "fail" /\ lastOp.via = "json"
    /\ lastOp.file.content = JsonArray(<<Obj({"foo"})>>)
    /\ dataSources = <<>>
    /\ "value" \in FieldsNamedIn(jsonProcessingError)

\* the shape of a numeric record and of a chart record
IsNumericRecord(item) == IsObjectWith(item, {"value", "year"})
IsChartRecord(item) == IsObjectWith(item, {"title"}) /\ item.keys \cap PageFields # {}

\* C18 as claimed: in every reachable registry state each source's dataType
\* agrees with the shape of all its elements: a 'numerical' source holds only
\* numeric records and a 'chart' source holds only chart records.
C18_DataTypeAgreesWithElements ==
    \A i \in 1..Len(dataSources) :
        \A j \in 1..Len(dataSources[i].data) :
            IF dataSources[i].dataType = "numerical"
            THEN IsNumericRecord(dataSources[i].data[j])
            ELSE IsChartRecord(dataSources[i].data[j])

-----------------------------------------------------------------------------
(* Claims about the downloads *)

\* an element with its id field left out of the comparison
IgnoringId(item) == IF item.t = "object" THEN Obj(item.keys \ {"id"}) ELSE item

SameIgnoringId(a, b) ==
    /\ Len(a) = Len(b)
    /\ \A j \in 1..Len(a) : IgnoringId(a[j]) = IgnoringId(b[j])

\* C13 as claimed: for every data source, exporting it with the single-source
\* JSON download or the ZIP export and importing the resulting envelope yields
\* a source with the same dataType and a data sequence equal element for
\* element to the original, ignoring the id field.
C13_ExportImportRoundTrip ==
    \A e \in exported :
        (JsonImportEnded /\ lastOp.file = e.file) =>
            /\ lastOp.op = "add"
            /\ LastSource.dataType = e.source.dataType
            /\ SameIgnoringId(LastSource.data, e.source.data)

\* C17 as claimed: the all-sources export produces an archive with exactly one
\* entry per registry entry, also for sources with empty data and for sources
\* that share name and dataType, and each entry holds that source's envelope.
C17_ArchiveHasOneEntryPerSource ==
    zip.stage # "idle" =>
        /\ zip.stage # "thrown"
        /\ Len(zip.entries) = Len(zip.sources)
        /\ \A i \in 1..Len(zip.sources) :
              \E k \in 1..Len(zip.entries) :
                  /\ zip.entries[k].content.name = StringValue(zip.sources[i].name)
                  /\ zip.entries[k].content.dataType =
                        StringValue(PlainName(zip.sources[i].dataType))
                  /\ zip.entries[k].content.data.t = "array"
                  /\ SameIgnoringId(zip.entries[k].content.data.items, zip.sources[i].data)

\* C14: for any text T, normalizing T inside a code fence (tagged json or
\* untagged) gives the same records, or the same failure, as normalizing T
C14_FencedAndUnfencedAgree ==
    /\ (normalized.plain # NotNormalized /\ normalized.json # NotNormalized)
          => normalized.json = normalized.plain
    /\ (normalized.plain # NotNormalized /\ normalized.bare # NotNormalized)
          => normalized.bare = normalized.plain

IsIntegerValue(v) ==
    /\ v.t = "number"
    /\ v.chars # <<>>
    /\ \A k \in 1..Len(v.chars) : v.chars[k] \in Digits \/ (k = 1 /\ v.chars[k] = "-")

IsNumberValue(v) == v.t = "number" /\ v # FNaN

\* C15: every numeric record extracted from a PDF and stored in the registry
\* has an integer year, and a value that is a number or the string N/A
C15_StoredNumericRecord ==
    \A i \in 1..Len(dataSources) :
        (dataSources[i].type = "pdf" /\ dataSources[i].dataType = "numerical") =>
            \A k \in 1..Len(dataSources[i].data) :
                /\ IsIntegerValue(dataSources[i].data[k].year)
                /\ \/ IsNumberValue(dataSources[i].data[k].value)
                   \/ dataSources[i].data[k].value = NotAvailable

\* C16: for every element of the parsed array (null, a number, a string or an
\* empty object included) each provider's analyzeDocument produces a record
\* and never raises an error
C16_CoercionNeverFails ==
    analysis # NotAnalyzed =>
        /\ analysis.ok
        /\ Len(analysis.data) = Len(providerResponse)

\* the prompts built so far
PromptsSent == {q \in {chatQuery, templateFill} : q.sent}

\* C19: in every prompt built for open Q&A or for a template fill, a context
\* that serializes to more than 150,000 characters is cut to its first 150,000
\* characters, the truncation marker is appended, and the prompt carries an
\* explicit note that the data was truncated
C19_TruncationCutMarkedAndNoted ==
    \A q \in PromptsSent :
        q.context.serialized > maxContextLength =>
            /\ q.context.kept = maxContextLength
            /\ q.context.marker
            /\ q.context.note

\* the log as it stood before the question of the last query was appended
LogBefore(question) == SubSeq(chatMessages, 1, question.id - 1)

LastTurns(log, n) == SubSeq(log, Max(1, Len(log) - n + 1), Len(log))

\* C20 as stated: the history of a query prompt is the last 10 turns of the log
\* that precede the in-flight question, in log order, without the question
C20_HistoryIsLastTenPriorTurns ==
    chatQuery.sent =>
        /\ chatQuery.history = LastTurns(LogBefore(chatQuery.question), 10)
        /\ \A k \in 1..Len(chatQuery.history) : chatQuery.history[k] # chatQuery.question

\* C20 amended: the history of a query prompt is the last 9 turns of the log
\* that precede the in-flight question (the last 10 messages of the log with
\* the question, minus the question), in log order, without the question
C20_HistoryIsLastNinePriorTurns ==
    chatQuery.sent =>
        /\ chatQuery.history = LastTurns(LogBefore(chatQuery.question), 9)
        /\ \A k \in 1..Len(chatQuery.history) : chatQuery.history[k] # chatQuery.question

\* a question sent after 10 or more messages: its prompt holds 9 prior turns
C20_Witness ==
    /\ chatQuery.sent
    /\ Len(LogBefore(chatQuery.question)) >= 10
    /\ Len(chatQuery.history) = 9
    /\ isChatLoading

\* the keys a bucket built from the registry should have
NonEmptyNames(sources, dataType) ==
    {sources[i].name : i \in {j \in 1..Len(sources) :
                                 sources[j].dataType = dataType /\ sources[j].data # <<>>}}

\* C21: a template-fill prompt holds the non-empty numeric sources only; an
\* open Q&A prompt holds the non-empty numeric sources and the non-empty chart
\* sources of the registry, each kind in its own bucket
C21_ContextKindsByMode ==
    [][/\ (templateFill' # templateFill /\ templateFill'.sent) =>
              /\ templateFill'.context.numericalData = NonEmptyNames(dataSources, "numerical")
              /\ templateFill'.context.chartData = {}
       /\ (chatQuery' # chatQuery /\ chatQuery'.sent) =>
              /\ chatQuery'.context.numericalData = NonEmptyNames(dataSources, "numerical")
              /\ chatQuery'.context.chartData = NonEmptyNames(dataSources, "chart")]_vars

\* C22: messages are appended in completion order: a step that changes the log
\* appends one message, and a reply is appended directly after its question,
\* which is then the most recent user message
C22_ReplyFollowsItsQuestion ==
    [][chatMessages' # chatMessages =>
          /\ Len(chatMessages') = Len(chatMessages) + 1
          /\ SubSeq(chatMessages', 1, Len(chatMessages)) = chatMessages
          /\ chatMessages'[Len(chatMessages')].sender = "ai" =>
                /\ chatMessages # <<>>
                /\ chatMessages[Len(chatMessages)].sender = "user"
                /\ chatQuery.sent => chatQuery.question = chatMessages[Len(chatMessages)]]_vars

\* the reply to a second question has been appended
C22_Witness ==
    /\ lastOp.op = "chat"
    /\ Len(chatMessages) >= 4
    /\ chatMessages[Len(chatMessages)].sender = "ai"

\* C23: the log is append-only: every message of the log is still there after
\* any step, unchanged and at the same position
C23_LogIsAppendOnly ==
    [][/\ Len(chatMessages') >= Len(chatMessages)
       /\ \A k \in 1..Len(chatMessages) : chatMessages'[k] = chatMessages[k]]_vars

\* a question sent on top of earlier questions and replies
C23_Witness ==
    /\ lastOp = Op("send", "chat", NoFile, FALSE)
    /\ Len(chatMessages) >= 3
    /\ isChatLoading

\* C24: a question whose provider call fails (no API key, a non-success HTTP
\* status, a thrown error) ends with the chat error shown and an assistant
\* message reporting the error appended, never with an ordinary answer
C24_FailedCallShowsError ==
    [][(isChatLoading /\ lastOp'.op = "chat" /\ lastOp'.via # "ok") =>
          /\ chatError' # NoError
          /\ chatMessages' # <<>>
          /\ chatMessages'[Len(chatMessages')].sender = "ai"
          /\ chatMessages'[Len(chatMessages')].text = ErrorReplyText]_vars

Alternates(log) ==
    \A k \in 1..Len(log) : log[k].sender = IF k % 2 = 1 THEN "user" ELSE "ai"

\* C30: at most one chat request is in flight: no question is accepted while
\* isChatLoading, user and assistant messages alternate in the log starting
\* with a user message, and a rejected submit (blank text, no numerical source,
\* all numerical sources empty, a question in flight) adds no message and calls
\* no provider
C30_OneChatRequestInFlight ==
    [][/\ Alternates(chatMessages')
       /\ isChatLoading' <=> (Len(chatMessages') % 2 = 1)
       /\ (isChatLoading /\ chatMessages' # chatMessages) =>
              chatMessages'[Len(chatMessages')].sender = "ai"
       /\ lastOp' = Op("reject", "chat", NoFile, FALSE) =>
              /\ chatMessages' = chatMessages
              /\ chatQuery' = chatQuery
              /\ isChatLoading' = isChatLoading]_vars

\* a submit rejected while an earlier question is in flight
C30_Witness ==
    /\ lastOp = Op("reject", "chat", NoFile, FALSE)
    /\ isChatLoading
    /\ Len(chatMessages) >= 3

\* C25 as stated: when an extraction or an import fails, the registry and the
\* active id are the ones its handler started from.
\* A handler that returns before its first await started from the state it
\* fails in.
FailedFrom ==
    CASE lastOp'.via = "numerical" -> {IF numerical = Idle THEN Snapshot ELSE startedFrom.numerical}
      [] lastOp'.via = "chart"     -> {IF chart = Idle THEN Snapshot ELSE startedFrom.chart}
      [] OTHER -> {startedFrom.json[i] : i \in {j \in 1..Len(jsonReads) : jsonReads[j] = lastOp'.file}}

C25_FailureRestoresStartState ==
    [][lastOp'.op = "fail" =>
         [dataSources |-> dataSources', activeDataSourceId |-> activeDataSourceId'] \in FailedFrom]_vars

\* C25, amended: the step in which an extraction or an import fails changes
\* neither the registry nor the active id, and so does every step of an
\* operation before its completion; they change only when an operation
\* completes with a source, or the user removes or selects one.
C25_FailureChangesNothing ==
    [][/\ lastOp'.op = "fail" => dataSources' = dataSources /\ activeDataSourceId' = activeDataSourceId
       /\ (dataSources' # dataSources \/ activeDataSourceId' # activeDataSourceId)
             => lastOp'.op \in {"add", "remove", "select"}]_vars

C25_Witness ==
    /\ lastOp.op = "fail"
    /\ dataSources # <<>>
    /\ activeDataSourceId # Null
    /\ startedFrom.tracked

\* the states the operation that completes in this step may have started from
CompletedFrom ==
    CASE lastOp'.via = "numerical" -> {startedFrom.numerical}
      [] lastOp'.via = "chart"     -> {startedFrom.chart}
      [] OTHER -> {startedFrom.json[i] : i \in {j \in 1..Len(jsonReads) : jsonReads[j] = lastOp'.file}}

\* C26: an operation that completes on a registry or an active id other than
\* the ones it started from appends its source after the sources present at
\* completion, keeps each of them as it is, and makes the new source active.
C26_LateCompletionAppendsToCurrent ==
    [][(lastOp'.op = "add" /\ CompletedFrom # {Snapshot}) =>
          /\ Len(dataSources') = Len(dataSources) + 1
          /\ \A i \in 1..Len(dataSources) : dataSources'[i] = dataSources[i]
          /\ dataSources'[Len(dataSources')].id \notin Ids(dataSources)
          /\ activeDataSourceId' = dataSources'[Len(dataSources')].id]_vars

C26_Witness ==
    /\ lastOp.op = "add" /\ lastOp.via = "numerical"
    /\ startedFrom.tracked
    /\ startedFrom.numerical # NotInFlight
    /\ startedFrom.numerical.dataSources = <<>>
    /\ Len(dataSources) = 2
    /\ dataSources[1].type = "json"
    /\ activeDataSourceId = dataSources[2].id

PageNumbers(charts) == [k \in 1..Len(charts) |-> charts[k].pageNumber]

\* C27: the provider calls of a chart-page analysis are made one page at a
\* time in the order of the page list, each after the previous one has
\* completed, a failed call included; when the analysis returns, every page
\* has had exactly one call and the charts are in page order.
C27_OneCallPerPageInOrder ==
    [][/\ chartLoop'.calls # chartLoop.calls =>
             /\ ~chartLoop.awaiting
             /\ Len(chartLoop.calls) < Len(chartLoop.pageImages)
             /\ chartLoop'.calls = Append(chartLoop.calls, chartLoop.pageImages[Len(chartLoop.calls) + 1])
       /\ chartLoop'.returned =>
             /\ chartLoop'.calls = chartLoop'.pageImages
             /\ \A k \in 1..(Len(chartLoop'.allExtractedCharts) - 1) :
                    PageNumbers(chartLoop'.allExtractedCharts)[k] <= PageNumbers(chartLoop'.allExtractedCharts)[k + 1]]_vars

C27_Witness ==
    /\ chartLoop.returned
    /\ Len(chartLoop.pageImages) = 3
    /\ chartLoop.errors = <<chartLoop.pageImages[2]>>
    /\ PageNumbers(chartLoop.allExtractedCharts) = <<chartLoop.pageImages[1], chartLoop.pageImages[3], chartLoop.pageImages[3]>>

\* a placeholder token somewhere in a text
HasPlaceholder(text) == \E k \in 1..Len(text) : PlaceholderAt(text, k) > 0

\* C28: in a rendered template-fill response no placeholder token is shown as
\* its raw text: one without an entry in values is shown as not found, one
\* with an entry as the value of the entry.
C28_PlaceholderNeverShownRaw ==
    templateView.rendered =>
        LET parts == SplitParts(templateView.response.filledTemplate)
        IN  /\ Len(templateView.shown) = Len(parts)
            /\ \A index \in 1..Len(parts) :
                   /\ ~HasPlaceholder(templateView.shown[index].text)
                   /\ IsPlaceholder(parts[index]) =>
                         \/ /\ \E k \in 1..Len(templateView.response.values) :
                                   templateView.response.values[k].placeholder = parts[index]
                            /\ templateView.shown[index].element = "button"
                            /\ \E k \in 1..Len(templateView.response.values) :
                                   /\ templateView.response.values[k].placeholder = parts[index]
                                   /\ templateView.response.values[k].value = templateView.shown[index].text
                         \/ /\ \A k \in 1..Len(templateView.response.values) :
                                   templateView.response.values[k].placeholder # parts[index]
                            /\ templateView.shown[index] = [element |-> "not found", text |-> <<NotFoundText>>]

\* C29: every loading flag that is set is cleared again.
C29_LoadingFlagsClear ==
    /\ numericalProcessingLoading ~> ~numericalProcessingLoading
    /\ chartProcessingLoading ~> ~chartProcessingLoading
    /\ jsonProcessingLoading ~> ~jsonProcessingLoading
    /\ isChatLoading ~> ~isChatLoading

====
